---- MODULE Spec2Model ----
(***************************************************************************)
(* Candidate selection, like submission and reciprocity of the two bot     *)
(* variants with a store: rrr.py (a mutual like creates a row of matches   *)
(* and deletes both likes) and ridon.py (a mutual like marks both likes    *)
(* is_mutual = 1).  A behaviour runs one of the two variants; `variant'    *)
(* is chosen by Init and never changes.                                    *)
(*                                                                         *)
(* The store is the SQLite file: the tables users, likes and matches.      *)
(* likes and matches are bags of rows: whether a pair occurs once is       *)
(* decided by the statements that insert, not by the representation.       *)
(* Time is counted in hours; today's date is the day number now \div 24,   *)
(* every profile has a reset date, set when it registered.                *)
(***************************************************************************)
EXTENDS Integers, FiniteSets, Sequences, Bags, TLC

VARIABLES variant, now, users, likes, matches, procs, last, hist,
          utc_offset, foreign_keys, reports, report_seq, views, profiles, flow,
          edit

vars == <<variant, now, users, likes, matches, procs, last, hist,
          utc_offset, foreign_keys, reports, report_seq, views, profiles, flow,
          edit>>

\* The process and its host: which bot runs, how many hours the host's local
\* time is ahead of UTC, and whether its SQLite enforces foreign keys.
host == <<variant, utc_offset, foreign_keys>>

\* The tables and the conversation state that create_like never touches.
side == <<reports, report_seq, views, profiles, flow, edit>>

(***************************************************************************)
(* Bounds of the model.                                                    *)
(***************************************************************************)
\* Days the clock may reach (the clock stops at the end of day MaxDays - 1).
MaxDays == 2
\* Rows the matches table may hold before the model stops inserting.
MaxMatches == 2
\* A cap on the counters nothing in the code bounds (likes_received_total,
\* and likes_today of a profile the quota does not stop).
MaxCount == 3
\* The configured daily limit, scaled down (rrr.py:44 has 1000000,
\* ridon.py:40 has 20) so that the quota is reached.
LIKES_PER_DAY_FREE == 2
\* rrr.py:342: the limit of a premium profile (9999 in the source), scaled
\* down by the same measure: as in the source it is below rrr.py's free limit.
PREMIUM_LIKES_LIMIT == 1

\* Rows the reports table may come to hold before the model stops inserting.
MaxReports == 2

\* rrr.py:43
CHAT_DURATION_HOURS == 24

\* ridon.py, get_pending_reports: LIMIT 50
PENDING_REPORTS_LIMIT == 50

\* The telegram ids the model uses: 1..3 have a profile, 4 has none.
Ids == {1, 2, 3}
TelegramIds == Ids \cup {4}
\* The profiles that send likes and browse (3 is only liked and shown), and
\* the profile the administrator bans and unbans.
Callers == {1, 2}
Bannable == {2}
Procs == {1, 2}

\* datetime.now().strftime("%Y-%m-%d"): the date of the hour t.
Today(t) == t \div 24

(***************************************************************************)
(* The tables.  A store is a record [users, likes, matches]; the           *)
(* statements below are functions from store to store, so that a           *)
(* transaction is their composition and a failed statement leaves the      *)
(* statements before it applied.                                           *)
(***************************************************************************)
Store == [users |-> users, likes |-> likes, matches |-> matches]

\* SELECT * FROM users WHERE telegram_id = ?  (a row, or none)
Registered(db, id) == id \in DOMAIN db.users

\* The rows of a bag that satisfy / do not satisfy a WHERE clause.
Rows(B) == BagToSet(B)

\* The table B cut down to the rows in the set `keep'.
KeepRows(B, keep) == [r \in keep |-> B[r]]

\* INSERT INTO <table> VALUES row, on a table with no constraint on the row.
InsertRow(B, row) == B (+) SetToBag({row})

\* SELECT 1 FROM likes WHERE from_user_id = f AND to_user_id = t
HasLike(L, f, t) ==
    \E r \in Rows(L) : r.from_user_id = f /\ r.to_user_id = t

\* How many rows of likes go from f to t.
LikeCount(L, f, t) ==
    BagCardinality(KeepRows(L,
        {r \in Rows(L) : r.from_user_id = f /\ r.to_user_id = t}))

\* How many rows of matches pair a and b, in either order of the columns.
MatchCount(M, a, b) ==
    BagCardinality(KeepRows(M,
        {m \in Rows(M) : \/ (m.user1_id = a /\ m.user2_id = b)
                         \/ (m.user1_id = b /\ m.user2_id = a)}))

(***************************************************************************)
(* get_user_by_telegram_id opens a connection of its own and reads one     *)
(* row; the result is a sequence holding the row, or the empty sequence    *)
(* for None.                                                               *)
(***************************************************************************)
get_user_by_telegram_id(db, id) ==
    IF Registered(db, id) THEN <<db.users[id]>> ELSE <<>>

\* The columns of a row read at the start of create_like that the rest of
\* the call uses: the counter, its date and is_premium of from_user; of
\* to_user only that there is a row.
UsedOfFrom(row) ==
    IF row = <<>> THEN <<>>
    ELSE IF variant = "rrr"
    THEN <<[likes_today |-> row[1].likes_today,
            likes_reset_date |-> row[1].likes_reset_date,
            is_premium |-> row[1].is_premium]>>
    ELSE <<[likes_given_today |-> row[1].likes_given_today,
            last_like_reset_date |-> row[1].last_like_reset_date,
            is_premium |-> row[1].is_premium]>>

UsedOfTo(row) == IF row = <<>> THEN <<>> ELSE <<TRUE>>

\* The places where a statement of create_like can raise.
FailPoints ==
    {"none", "reset", "insert_like", "inc_given", "inc_received",
     "insert_match", "delete_likes", "set_mutual"}

\* What a call gives back: the store it leaves, the value it returns
\* ("True", "False", or "raise" when the exception leaves the function), the
\* profile it returns beside it (ridon.py; 0 is None) and the branch taken.
Outcome(db, ret, ret_user, path) ==
    [db |-> db, ret |-> ret, ret_user |-> ret_user, path |-> path]

(***************************************************************************)
(* rrr.py, Database.create_like: the statements, in the order of the code. *)
(***************************************************************************)
\* UPDATE users SET likes_today = 0, likes_reset_date = ? WHERE telegram_id = ?
rrr_reset_likes(db, id, today) ==
    IF Registered(db, id)
    THEN [db EXCEPT !.users[id].likes_today = 0,
                    !.users[id].likes_reset_date = today]
    ELSE db

\* INSERT OR IGNORE INTO likes (from_user_id, to_user_id): likes has
\* UNIQUE(from_user_id, to_user_id), and a row that breaks it is dropped.
rrr_insert_like(db, f, t) ==
    IF HasLike(db.likes, f, t)
    THEN db
    ELSE [db EXCEPT !.likes = InsertRow(@, [from_user_id |-> f, to_user_id |-> t])]

\* UPDATE users SET likes_today = likes_today + 1 WHERE telegram_id = ?
rrr_inc_likes_today(db, id) ==
    IF Registered(db, id)
    THEN [db EXCEPT !.users[id].likes_today = @ + 1]
    ELSE db

\* A variant of rrr_insert_match that writes a row for each direction.
rrr_insert_match_both_ways(db, f, t, expires_at) ==
    [db EXCEPT !.matches = InsertRow(InsertRow(@,
        [user1_id |-> f, user2_id |-> t, chat_expires_at |-> expires_at,
         is_active |-> TRUE]),
        [user1_id |-> t, user2_id |-> f, chat_expires_at |-> expires_at,
         is_active |-> TRUE])]

\* INSERT INTO matches (id, user1_id, user2_id, chat_expires_at): the id is a
\* fresh uuid and the table has no constraint on the pair.
rrr_insert_match(db, f, t, expires_at) ==
    [db EXCEPT !.matches = InsertRow(@,
        [user1_id |-> f, user2_id |-> t, chat_expires_at |-> expires_at,
         is_active |-> TRUE])]

\* A variant of rrr_delete_likes whose WHERE joins the two directions with
\* AND: it deletes a row only when f = t.
rrr_delete_likes_and(db, f, t) ==
    [db EXCEPT !.likes = KeepRows(@, {r \in Rows(@) :
        ~(/\ (r.from_user_id = f /\ r.to_user_id = t)
          /\ (r.from_user_id = t /\ r.to_user_id = f))})]

\* DELETE FROM likes WHERE (from = f AND to = t) OR (from = t AND to = f)
rrr_delete_likes(db, f, t) ==
    [db EXCEPT !.likes = KeepRows(@, {r \in Rows(@) :
        ~(\/ (r.from_user_id = f /\ r.to_user_id = t)
          \/ (r.from_user_id = t /\ r.to_user_id = f))})]

\* likes_limit = LIKES_PER_DAY_FREE if not from_user['is_premium'] else 9999
rrr_likes_limit(from_user) ==
    IF ~from_user.is_premium THEN LIKES_PER_DAY_FREE ELSE PREMIUM_LIKES_LIMIT

\* A variant of rrr_quota_denied that tests the counter as the row was read,
\* before the reset.
rrr_quota_denied_as_read(likes_today, from_user) ==
    from_user.likes_today >= rrr_likes_limit(from_user)

\* A variant of rrr_quota_denied that compares with > in place of >=.
rrr_quota_denied_gt(likes_today, from_user) ==
    likes_today > rrr_likes_limit(from_user)

\* if from_user['likes_today'] >= likes_limit: return False
rrr_quota_denied(likes_today, from_user) ==
    likes_today >= rrr_likes_limit(from_user)

\* What the connection commits when the statement at `fail' raised inside
\* the try block: the except clause swallows the exception, the with block
\* ends normally and get_connection commits the statements already run
\* (db_done), unless the error made SQLite roll the transaction back itself
\* (`rolled'), and then nothing of the call is kept (db0).
AfterCaught(db0, db_done, rolled) ==
    Outcome(IF rolled THEN db0 ELSE db_done, "False", 0, "error")

\* The part of create_like from the quota check on, with the rows read at
\* its start (from_user, to_user: sequences of zero or one row), the date
\* and the hour it read, and where a statement fails, if one does.
rrr_create_like(db, from_user, to_user, f, t, today, hour, fail, rolled) ==
    IF from_user = <<>> \/ to_user = <<>>
    THEN Outcome(db, "False", 0, "notfound")
    ELSE
    LET fu    == from_user[1]
        stale == fu.likes_reset_date # today
        db1   == IF stale THEN rrr_reset_likes(db, f, today) ELSE db
        likes_today == IF stale THEN 0 ELSE fu.likes_today
        db2   == rrr_insert_like(db1, f, t)
        db3   == rrr_inc_likes_today(db2, f)
        mutual == HasLike(db3.likes, t, f)
        expires_at == hour + CHAT_DURATION_HOURS
        db4   == rrr_insert_match(db3, f, t, expires_at)
        db5   == rrr_delete_likes(db4, f, t)
    IN  IF stale /\ fail = "reset"
        THEN Outcome(db, "raise", 0, "raised")   \* outside the try: rollback
        ELSE IF rrr_quota_denied(likes_today, fu)
        THEN Outcome(db1, "False", 0, "quota")
        ELSE IF fail = "insert_like" THEN AfterCaught(db, db1, rolled)
        ELSE IF fail = "inc_given"   THEN AfterCaught(db, db2, rolled)
        ELSE IF ~mutual              THEN Outcome(db3, "False", 0, "sent")
        ELSE IF fail = "insert_match" THEN AfterCaught(db, db3, rolled)
        ELSE IF fail = "delete_likes" THEN AfterCaught(db, db4, rolled)
        ELSE Outcome(db5, "True", 0, "mutual")

(***************************************************************************)
(* ridon.py, Database.create_like.                                         *)
(***************************************************************************)
\* UPDATE users SET likes_given_today = 0, last_like_reset_date = ?
ridon_reset_likes(db, id, today) ==
    IF Registered(db, id)
    THEN [db EXCEPT !.users[id].likes_given_today = 0,
                    !.users[id].last_like_reset_date = today]
    ELSE db

\* A variant of ridon_insert_like on a table without the UNIQUE constraint.
ridon_insert_like_plain(db, f, t) ==
    [db EXCEPT !.likes = InsertRow(@,
        [from_user_id |-> f, to_user_id |-> t, is_mutual |-> FALSE])]

\* INSERT OR IGNORE INTO likes (from_user_id, to_user_id); is_mutual
\* DEFAULT 0; UNIQUE(from_user_id, to_user_id).
ridon_insert_like(db, f, t) ==
    IF HasLike(db.likes, f, t)
    THEN db
    ELSE [db EXCEPT !.likes = InsertRow(@,
            [from_user_id |-> f, to_user_id |-> t, is_mutual |-> FALSE])]

\* UPDATE users SET likes_given_today = likes_given_today + 1
ridon_inc_likes_given_today(db, id) ==
    IF Registered(db, id)
    THEN [db EXCEPT !.users[id].likes_given_today = @ + 1]
    ELSE db

\* UPDATE users SET likes_received_total = likes_received_total + 1
ridon_inc_likes_received_total(db, id) ==
    IF Registered(db, id)
    THEN [db EXCEPT !.users[id].likes_received_total = @ + 1]
    ELSE db

\* A variant of ridon_set_mutual that marks the like from f to t only.
ridon_set_mutual_one_way(db, f, t) ==
    LET hit(r) == r.from_user_id = f /\ r.to_user_id = t
        rest   == KeepRows(db.likes, {r \in Rows(db.likes) : ~hit(r)})
        marked == {[r EXCEPT !.is_mutual = TRUE] : r \in {x \in Rows(db.likes) : hit(x)}}
    IN  [db EXCEPT !.likes = rest (+) SetToBag(marked)]

\* UPDATE likes SET is_mutual = 1 WHERE (from = f AND to = t) OR (from = t AND to = f)
ridon_set_mutual(db, f, t) ==
    LET hit(r) == \/ (r.from_user_id = f /\ r.to_user_id = t)
                  \/ (r.from_user_id = t /\ r.to_user_id = f)
        rest   == KeepRows(db.likes, {r \in Rows(db.likes) : ~hit(r)})
        marked == {[r EXCEPT !.is_mutual = TRUE] : r \in {x \in Rows(db.likes) : hit(x)}}
        \* the rows that become one and the same row m add up
        copies(m) == LET src == {r \in Rows(db.likes) :
                                    hit(r) /\ [r EXCEPT !.is_mutual = TRUE] = m}
                         only == [r \in src |-> db.likes[r]]
                     IN  BagCardinality(only)
    IN  [db EXCEPT !.likes = rest (+) [m \in marked |-> copies(m)]]

\* A variant of ridon_quota_denied that compares with > in place of >=.
ridon_quota_denied_gt(likes_given_today, from_user) ==
    likes_given_today > LIKES_PER_DAY_FREE /\ ~from_user.is_premium

\* if likes_given_today >= LIKES_PER_DAY_FREE and not is_premium: return False, None
ridon_quota_denied(likes_given_today, from_user) ==
    likes_given_today >= LIKES_PER_DAY_FREE /\ ~from_user.is_premium

ridon_create_like(db, from_user, to_user, f, t, today, hour, fail, rolled) ==
    IF from_user = <<>> \/ to_user = <<>>
    THEN Outcome(db, "False", 0, "notfound")
    ELSE
    LET fu    == from_user[1]
        stale == fu.last_like_reset_date # today
        db1   == IF stale THEN ridon_reset_likes(db, f, today) ELSE db
        likes_given_today == IF stale THEN 0 ELSE fu.likes_given_today
        db2   == ridon_insert_like(db1, f, t)
        db3   == ridon_inc_likes_given_today(db2, f)
        db4   == ridon_inc_likes_received_total(db3, t)
        is_mutual == HasLike(db4.likes, t, f)
        db5   == ridon_set_mutual(db4, f, t)
    IN  IF stale /\ fail = "reset"
        THEN Outcome(db, "raise", 0, "raised")   \* outside the try: rollback
        ELSE IF ridon_quota_denied(likes_given_today, fu)
        THEN Outcome(db1, "False", 0, "quota")
        ELSE IF fail = "insert_like"  THEN AfterCaught(db, db1, rolled)
        ELSE IF fail = "inc_given"    THEN AfterCaught(db, db2, rolled)
        ELSE IF fail = "inc_received" THEN AfterCaught(db, db3, rolled)
        ELSE IF ~is_mutual            THEN Outcome(db4, "False", t, "sent")
        ELSE IF fail = "set_mutual"   THEN AfterCaught(db, db4, rolled)
        ELSE Outcome(db5, "True", t, "mutual")

\* The variant's create_like.
create_like(db, from_user, to_user, f, t, today, hour, fail, rolled) ==
    IF variant = "rrr"
    THEN rrr_create_like(db, from_user, to_user, f, t, today, hour, fail, rolled)
    ELSE ridon_create_like(db, from_user, to_user, f, t, today, hour, fail, rolled)

(***************************************************************************)
(* reset_daily_likes_if_needed (both variants): zero the counter when the  *)
(* stored date is not today's.                                             *)
(***************************************************************************)
\* A variant of reset_daily_likes_if_needed that does not look at the date.
reset_daily_likes_always(db, id, today) ==
    IF ~Registered(db, id) THEN db
    ELSE IF variant = "rrr" THEN rrr_reset_likes(db, id, today)
                            ELSE ridon_reset_likes(db, id, today)

reset_daily_likes_if_needed(db, id, today) ==
    IF ~Registered(db, id) THEN db
    ELSE IF variant = "rrr"
    THEN IF db.users[id].likes_reset_date # today
         THEN rrr_reset_likes(db, id, today) ELSE db
    ELSE IF db.users[id].last_like_reset_date # today
         THEN ridon_reset_likes(db, id, today) ELSE db

(***************************************************************************)
(* get_next_profile.                                                       *)
(***************************************************************************)
\* A variant of rrr_match_excludes that looks for the viewer in user1_id only.
rrr_match_excludes_one_side(M, v, u) ==
    \E m \in Rows(M) : m.user1_id = v /\ m.user2_id = u

\* rrr.py: the second NOT EXISTS.  AND binds tighter than OR in SQL, so the
\* clause reads  (user1 = v AND user2 = u)
\*            OR (user2 = v AND user1 = u AND is_active = 1).
rrr_match_excludes(M, v, u) ==
    \E m \in Rows(M) :
        \/ (m.user1_id = v /\ m.user2_id = u)
        \/ (m.user2_id = v /\ m.user1_id = u /\ m.is_active)

\* rrr.py: the WHERE clause of get_next_profile for viewer v and row u.
rrr_eligible(db, v, u) ==
    LET me == db.users[v]
        c  == db.users[u]
    IN  /\ u # v
        /\ c.is_active
        /\ ~c.is_banned
        /\ c.age >= me.search_age_min /\ c.age <= me.search_age_max
        /\ ~HasLike(db.likes, v, u)
        /\ ~rrr_match_excludes(db.matches, v, u)
        /\ (me.search_gender = "any" \/ c.gender = me.search_gender)

\* rrr.py: ORDER BY u.last_seen DESC LIMIT 1: the rows that may come first.
rrr_next_profiles(db, v) ==
    LET E == {u \in DOMAIN db.users : rrr_eligible(db, v, u)}
    IN  {u \in E : \A w \in E : db.users[w].last_seen <= db.users[u].last_seen}

\* A variant of ridon_eligible without the is_active and is_banned tests.
ridon_eligible_no_ban(db, v, u) ==
    /\ u # v
    /\ ~HasLike(db.likes, v, u)

\* ridon.py: the WHERE clause of get_next_profile.
ridon_eligible(db, v, u) ==
    LET c == db.users[u]
    IN  /\ u # v
        /\ c.is_active
        /\ ~c.is_banned
        /\ ~HasLike(db.likes, v, u)

\* ridon.py: ORDER BY RANDOM() LIMIT 1: any eligible row.
ridon_next_profiles(db, v) ==
    {u \in DOMAIN db.users : ridon_eligible(db, v, u)}

\* The profiles get_next_profile(v) may return; {0} stands for None.
get_next_profile(db, v) ==
    IF ~Registered(db, v) THEN {0}
    ELSE LET R == IF variant = "rrr" THEN rrr_next_profiles(db, v)
                                     ELSE ridon_next_profiles(db, v)
         IN  IF R = {} THEN {0} ELSE R

\* ridon.py: INSERT INTO profile_views (viewer_id, viewed_user_id).  The
\* model keeps which pairs have a row, not how many rows each has.
record_profile_view(V, viewer_id, viewed_user_id) ==
    V \cup {<<viewer_id, viewed_user_id>>}

(***************************************************************************)
(* rrr.py, get_active_matches: the rows of matches with the user in either *)
(* column, is_active = 1 and datetime(chat_expires_at) > datetime('now'),  *)
(* each with the partner's telegram_id.  chat_expires_at was written by    *)
(* create_like from datetime.now(), the host's local time; datetime('now') *)
(* of SQLite is UTC: utcnow is the hour the query compares with.  The      *)
(* result is the bag of the rows returned.                                 *)
(***************************************************************************)
\* WHERE (m.user1_id = ? OR m.user2_id = ?)
in_match(m, id) == m.user1_id = id \/ m.user2_id = id

\* CASE WHEN m.user1_id = ? THEN u2.telegram_id ELSE u1.telegram_id END
partner_telegram_id(m, id) == IF m.user1_id = id THEN m.user2_id ELSE m.user1_id

get_active_matches(db, id, utcnow) ==
    IF ~Registered(db, id) THEN EmptyBag
    ELSE KeepRows(db.matches,
            {m \in Rows(db.matches) : /\ in_match(m, id)
                                       /\ m.is_active
                                       /\ m.chat_expires_at > utcnow})

\* The hour datetime('now') stands for when the host's clock shows hour t.
UtcNow(t) == t - utc_offset

(***************************************************************************)
(* ridon.py: ban_user and unban_user, one UPDATE each.                     *)
(***************************************************************************)
\* A variant of ban_user that sets is_banned and leaves is_active.
ban_user_flag_only(db, id) ==
    IF Registered(db, id)
    THEN [db EXCEPT !.users[id].is_banned = TRUE]
    ELSE db

ban_user(db, id) ==
    IF Registered(db, id)
    THEN [db EXCEPT !.users[id].is_banned = TRUE, !.users[id].is_active = FALSE]
    ELSE db

unban_user(db, id) ==
    IF Registered(db, id)
    THEN [db EXCEPT !.users[id].is_banned = FALSE, !.users[id].is_active = TRUE]
    ELSE db

(***************************************************************************)
(* The initial store: three profiles registered on day 0 in the order 1,   *)
(* 2, 3 (handle_registration_goal of rrr.py, handle_registration_bio of    *)
(* ridon.py: the counter is 0 and the reset date is the registration       *)
(* day).  is_premium and, in rrr.py, is_banned are columns no handler      *)
(* writes; the store may hold either value for them.                       *)
(***************************************************************************)
Age(id) == CASE id = 1 -> 25 [] id = 2 -> 23 [] OTHER -> 30
Gender(id) == CASE id = 1 -> "male" [] id = 2 -> "female" [] OTHER -> "other"

rrr_user(id, premium, banned) ==
    [age |-> Age(id), gender |-> Gender(id),
     search_gender |-> "any", search_age_min |-> 18, search_age_max |-> 45,
     likes_today |-> 0, likes_reset_date |-> 0,
     is_active |-> TRUE, is_premium |-> premium, is_banned |-> banned,
     last_seen |-> id]

ridon_user(id, premium) ==
    [age |-> Age(id), gender |-> Gender(id),
     is_active |-> TRUE, is_banned |-> FALSE, is_premium |-> premium,
     likes_given_today |-> 0, likes_received_total |-> 0,
     last_like_reset_date |-> 0]

\* A worker between calls, and one inside create_like after its two reads.
IdleProc ==
    [pc |-> "idle", f |-> 0, t |-> 0, from_user |-> <<>>, to_user |-> <<>>,
     today |-> 0]

\* hist counts, for the concurrent runs, the calls create_like(f, t) between
\* the two callers that ran to their end past the quota check (2 stands for
\* two or more).
HistPairs == {<<1, 2>>, <<2, 1>>}
NoHist == [pr \in HistPairs |-> 0]
Bump(h, f, t, path) ==
    IF <<f, t>> \in HistPairs /\ path \in {"sent", "mutual"}
    THEN [h EXCEPT ![<<f, t>>] = IF @ < 2 THEN @ + 1 ELSE 2]
    ELSE h

NoCall == [op |-> "none", a |-> 0, b |-> 0, ret |-> "", ret_user |-> 0, path |-> ""]

\* The tables of likes at the start: the three profiles, no like, no match.
InitTables ==
    /\ variant \in {"rrr", "ridon"}
    /\ now = 0
    /\ \E premium \in {{}}, banned \in {{}, Bannable} :
          users = IF variant = "rrr"
                  THEN [id \in Ids |-> rrr_user(id, id \in premium, id \in banned)]
                  ELSE [id \in Ids |-> ridon_user(id, id \in premium)]
    /\ likes = EmptyBag
    /\ matches = EmptyBag
    /\ procs = [p \in Procs |-> IdleProc]
    /\ last = NoCall
    /\ hist = NoHist

\* context.user_data without the key 'registration'.
NoRegistration ==
    [present |-> FALSE, keys |-> {}, name |-> "", age |-> 0, bio |-> 0,
     interests |-> << >>]

\* No conversation under way for the chat.
NoFlow == [state |-> "END", registration |-> NoRegistration]

\* No report, no profile view, no row written by create_user, no
\* conversation under way.
InitSide ==
    /\ reports = {}
    /\ report_seq = 0
    /\ views = {}
    /\ profiles = EmptyBag
    /\ flow = NoFlow
    /\ edit = "END"

\* The specifications of likes and browsing read no clock of SQLite and
\* delete no row: there the host is at UTC with SQLite's default setting.
Init ==
    /\ InitTables
    /\ InitSide
    /\ utc_offset = 0
    /\ foreign_keys = FALSE

\* The model stops where a counter or the matches table would pass its cap.
WithinCaps(db) ==
    /\ BagCardinality(db.matches) <= MaxMatches
    /\ \A id \in DOMAIN db.users :
          IF variant = "rrr"
          THEN db.users[id].likes_today <= MaxCount
          ELSE /\ db.users[id].likes_given_today <= MaxCount
               /\ db.users[id].likes_received_total <= MaxCount

Commit(db) ==
    /\ users' = db.users
    /\ likes' = db.likes
    /\ matches' = db.matches

AllIdle == \A p \in Procs : procs[p].pc = "idle"

(***************************************************************************)
(* The operations, one call at a time.                                     *)
(***************************************************************************)
\* Whether create_like, with the row from_user it read, finds a reset date
\* that is not today's (the test of rrr.py:335, ridon.py:451).
FoundStale(from_user, today) ==
    /\ from_user # <<>>
    /\ IF variant = "rrr" THEN from_user[1].likes_reset_date # today
                           ELSE from_user[1].last_like_reset_date # today

\* What the like handler tells the user after create_like gave back `res'
\* (rrr.py handle_like: `if is_mutual: ... else: "like sent"'; ridon.py
\* handle_like_action: `if is_mutual and liked_user / elif liked_user /
\* else: "could not send"').  An exception that leaves create_like leaves the
\* handler too: nothing is told.
handle_like(res) ==
    IF res.ret = "raise" THEN "none"
    ELSE IF variant = "rrr"
    THEN IF res.ret = "True" THEN "mutual" ELSE "sent"
    ELSE IF res.ret = "True" /\ res.ret_user # 0 THEN "mutual"
    ELSE IF res.ret_user # 0 THEN "sent"
    ELSE "failed"

\* create_like(f, t), run from its first read to its commit with no other
\* call in between and no failing statement; `reply' is what the handler
\* that called it tells the user.
CreateLike(f, t) ==
    /\ AllIdle
    /\ LET res == create_like(Store, get_user_by_telegram_id(Store, f),
                              get_user_by_telegram_id(Store, t),
                              f, t, Today(now), now, "none", FALSE)
       IN  /\ WithinCaps(res.db)
           /\ Commit(res.db)
           /\ last' = [op |-> "create_like", a |-> f, b |-> t, ret |-> res.ret,
                       ret_user |-> res.ret_user, path |-> res.path,
                       stale |-> FoundStale(get_user_by_telegram_id(Store, f),
                                            Today(now)),
                       reply |-> handle_like(res)]
    /\ UNCHANGED <<host, side, now, procs, hist>>

\* reset_daily_likes_if_needed(id)
ResetDailyLikes(id) ==
    /\ AllIdle
    /\ Commit(reset_daily_likes_if_needed(Store, id, Today(now)))
    /\ last' = [NoCall EXCEPT !.op = "reset_daily_likes_if_needed", !.a = id]
    /\ UNCHANGED <<host, side, now, procs, hist>>

\* get_next_profile(v): the profile returned is in last.ret_user; ridon.py
\* records the view of the profile it returns.
GetNextProfile(v) ==
    /\ AllIdle
    /\ \E u \in get_next_profile(Store, v) :
          /\ last' = [NoCall EXCEPT !.op = "get_next_profile", !.a = v, !.ret_user = u]
          /\ views' = IF variant = "ridon" /\ u # 0
                       THEN record_profile_view(views, v, u) ELSE views
    /\ UNCHANGED <<host, reports, report_seq, profiles, flow, edit>>
    /\ UNCHANGED <<now, users, likes, matches, procs, hist>>

\* A variant of show_next_profile that charges the profile shown to the
\* viewer's daily counter.
show_next_profile_charged(db, v, today) ==
    LET db1 == reset_daily_likes_if_needed(db, v, today)
    IN  IF ~Registered(db, v) THEN db
        ELSE IF variant = "rrr" THEN rrr_inc_likes_today(db1, v)
                                ELSE ridon_inc_likes_given_today(db1, v)

\* What browse_profiles_callback (rrr.py) and show_next_profile (ridon.py)
\* write to the store before they ask for the next profile:
\* `if not user: return', then db.reset_daily_likes_if_needed.
show_next_profile(db, v, today) ==
    IF ~Registered(db, v) THEN db
    ELSE reset_daily_likes_if_needed(db, v, today)

\* The skip button: handle_skip of rrr.py answers and calls
\* browse_profiles_callback, handle_next_action of ridon.py replies and calls
\* show_next_profile.  `skipped' is the profile the viewer was shown by the
\* call just before (0: none), ret_user the profile shown now.
HandleSkip(v) ==
    /\ AllIdle
    /\ LET db == show_next_profile(Store, v, Today(now))
       IN  /\ Commit(db)
           /\ \E u \in get_next_profile(db, v) :
                 /\ last' = [op |-> "skip", a |-> v, b |-> 0, ret |-> "",
                             ret_user |-> u, path |-> "",
                             skipped |-> IF /\ last.op \in {"get_next_profile", "skip"}
                                            /\ last.a = v
                                         THEN last.ret_user ELSE 0]
                 /\ views' = IF variant = "ridon" /\ u # 0
                              THEN record_profile_view(views, v, u) ELSE views
    /\ UNCHANGED <<host, reports, report_seq, profiles, flow, edit>>
    /\ UNCHANGED <<now, procs, hist>>

\* ridon.py: ban_user(id) and unban_user(id)
BanUser(id) ==
    /\ variant = "ridon"
    /\ AllIdle
    /\ Commit(ban_user(Store, id))
    /\ last' = [NoCall EXCEPT !.op = "ban_user", !.a = id]
    /\ UNCHANGED <<host, side, now, procs, hist>>

UnbanUser(id) ==
    /\ variant = "ridon"
    /\ AllIdle
    /\ Commit(unban_user(Store, id))
    /\ last' = [NoCall EXCEPT !.op = "unban_user", !.a = id]
    /\ UNCHANGED <<host, side, now, procs, hist>>

\* get_active_matches(v): the rows returned are in last.rows.
GetActiveMatches(v) ==
    /\ variant = "rrr"
    /\ AllIdle
    /\ last' = [op |-> "get_active_matches", a |-> v, b |-> 0, ret |-> "",
                ret_user |-> 0, path |-> "",
                rows |-> get_active_matches(Store, v, UtcNow(now))]
    /\ UNCHANGED <<host, side, now, users, likes, matches, procs, hist>>

\* The housekeeping sweep: is_active is cleared on every row of matches
\* whose chat_expires_at has passed.
sweep_expired(db, hour) ==
    LET dead == {m \in Rows(db.matches) : m.is_active /\ m.chat_expires_at <= hour}
        off  == {[m EXCEPT !.is_active = FALSE] : m \in dead}
        copies(x) == BagCardinality(KeepRows(db.matches,
                        {m \in dead : [m EXCEPT !.is_active = FALSE] = x}))
                     + (IF x \in Rows(db.matches) THEN db.matches[x] ELSE 0)
    IN  [db EXCEPT !.matches =
            KeepRows(@, {m \in Rows(@) : m \notin dead /\ m \notin off})
            (+) [x \in off |-> copies(x)]]

SweepExpired ==
    /\ variant = "rrr"
    /\ AllIdle
    /\ \E m \in Rows(matches) : m.is_active /\ m.chat_expires_at <= now
    /\ Commit(sweep_expired(Store, now))
    /\ last' = [NoCall EXCEPT !.op = "sweep_expired"]
    /\ UNCHANGED <<host, side, now, procs, hist>>

\* The clock is looked at at 00:00 and 21:00 of every day: the time passes
\* to the next of these hours.
Wait ==
    /\ now' = IF now % 24 = 0 THEN now + 21 ELSE now + 3
    /\ now' < MaxDays * 24
    /\ last' = [NoCall EXCEPT !.op = "wait"]
    /\ UNCHANGED <<host, side, users, likes, matches, procs, hist>>

\* A day passes.
Tick ==
    /\ now + 24 < MaxDays * 24
    /\ now' = now + 24
    /\ last' = [NoCall EXCEPT !.op = "tick"]
    /\ UNCHANGED <<host, side, users, likes, matches, procs, hist>>

\* The calls of create_like the runs make: the two callers like each other,
\* and 1 also likes 3, who likes nobody, and 4, who has no profile.
Calls == {<<1, 2>>, <<2, 1>>, <<1, 3>>, <<1, 4>>}

\* Likes, the daily reset and the passing of days, one call at a time.
Next ==
    \/ \E c \in Calls : CreateLike(c[1], c[2])
    \/ \E id \in Callers : ResetDailyLikes(id)
    \/ Tick

Spec == Init /\ [][Next]_vars

\* The same calls where profile 1 has is_premium = 1 (the column is read by
\* create_like; no handler writes it, the operator sets it in the table).
InitPremium ==
    /\ variant \in {"rrr", "ridon"}
    /\ now = 0
    /\ users = IF variant = "rrr"
               THEN [id \in Ids |-> rrr_user(id, id = 1, FALSE)]
               ELSE [id \in Ids |-> ridon_user(id, id = 1)]
    /\ likes = EmptyBag
    /\ matches = EmptyBag
    /\ procs = [p \in Procs |-> IdleProc]
    /\ last = NoCall
    /\ hist = NoHist
    /\ InitSide
    /\ utc_offset = 0
    /\ foreign_keys = FALSE

SpecPremium == InitPremium /\ [][Next]_vars

\* Calls of create_like in which the caller may name itself as the target:
\* Database.create_like compares from_user_id with to_user_id nowhere.
SelfCalls == {<<1, 1>>, <<2, 2>>, <<1, 2>>, <<2, 1>>}

NextSelf ==
    \/ \E c \in SelfCalls : CreateLike(c[1], c[2])
    \/ Tick

SpecSelf == Init /\ [][NextSelf]_vars

\* Browsing with the skip button between the likes of the two callers and
\* the days.
NextSkip ==
    \/ \E c \in HistPairs : CreateLike(c[1], c[2])
    \/ \E v \in Callers : GetNextProfile(v)
    \/ \E v \in Callers : HandleSkip(v)
    \/ Tick

SpecSkip == Init /\ [][NextSkip]_vars

\* rrr.py with matches that expire and are swept: likes, the clock, the
\* sweep and the browsing of the two callers.
InitInactive == Init /\ variant = "rrr"

NextInactive ==
    \/ \E c \in Calls : CreateLike(c[1], c[2])
    \/ \E v \in Callers : GetNextProfile(v)
    \/ SweepExpired
    \/ Wait

SpecInactive == InitInactive /\ [][NextInactive]_vars

(***************************************************************************)
(* Registration in the store.  Here the users table (registered_users in   *)
(* goriila.py) is the bag `profiles' of the rows inserted: telegram_id     *)
(* (user_id in goriila.py), and full_name for the fields of user_data.     *)
(* The column is UNIQUE: an INSERT of a second row with the same id raises *)
(* IntegrityError and inserts nothing.                                     *)
(***************************************************************************)
HasProfile(P, id) == \E r \in Rows(P) : r.telegram_id = id

\* A variant of rrr_create_user on a table without UNIQUE(telegram_id).
rrr_create_user_no_unique(P, user_data) ==
    [db |-> InsertRow(P, user_data), ret |-> "user"]

\* rrr.py, create_user: the INSERT and the SELECT of the new row on the same
\* connection; the except clause logs the error and the call returns None.
rrr_create_user(P, user_data) ==
    IF HasProfile(P, user_data.telegram_id)
    THEN [db |-> P, ret |-> "None"]
    ELSE [db |-> InsertRow(P, user_data), ret |-> "user"]

\* ridon.py, create_user: the same INSERT; the new row is then read through
\* get_user_by_id, on a connection of its own, before this one commits:
\* that read finds no row and the call returns None also when it inserted.
ridon_create_user(P, user_data) ==
    IF HasProfile(P, user_data.telegram_id)
    THEN [db |-> P, ret |-> "None"]
    ELSE [db |-> InsertRow(P, user_data), ret |-> "None"]

create_user(P, user_data) ==
    IF variant = "rrr" THEN rrr_create_user(P, user_data)
                       ELSE ridon_create_user(P, user_data)

\* goriila.py, button_handler, query.data == 'register': SELECT 1 for the
\* user, then the INSERT and the commit.
goriila_register(P, user_id, user_name) ==
    IF HasProfile(P, user_id)
    THEN [db |-> P, ret |-> "already"]
    ELSE [db |-> InsertRow(P, [telegram_id |-> user_id, full_name |-> user_name]),
          ret |-> "registered"]

\* The names a registration submits.
Names == {"Ann", "Bob"}

CreateUser(id, name) ==
    /\ variant \in {"rrr", "ridon"}
    /\ LET res == create_user(profiles, [telegram_id |-> id, full_name |-> name])
       IN  /\ profiles' = res.db
           /\ last' = [op |-> "create_user", a |-> id, b |-> 0, ret |-> res.ret,
                       ret_user |-> 0, path |-> "", name |-> name]
    /\ UNCHANGED <<host, now, users, likes, matches, procs, hist>>
    /\ UNCHANGED <<reports, report_seq, views, flow, edit>>

GoriilaRegister(id, name) ==
    /\ variant = "goriila"
    /\ LET res == goriila_register(profiles, id, name)
       IN  /\ profiles' = res.db
           /\ last' = [op |-> "register", a |-> id, b |-> 0, ret |-> res.ret,
                       ret_user |-> 0, path |-> "", name |-> name]
    /\ UNCHANGED <<host, now, users, likes, matches, procs, hist>>
    /\ UNCHANGED <<reports, report_seq, views, flow, edit>>

\* One of the three bots with an empty users table.
InitRegister ==
    /\ variant \in {"rrr", "ridon", "goriila"}
    /\ now = 0
    /\ users = << >>
    /\ likes = EmptyBag
    /\ matches = EmptyBag
    /\ procs = [p \in Procs |-> IdleProc]
    /\ last = NoCall
    /\ hist = NoHist
    /\ InitSide
    /\ utc_offset = 0
    /\ foreign_keys = FALSE

NextRegister ==
    \/ \E id \in TelegramIds, name \in Names : CreateUser(id, name)
    \/ \E id \in TelegramIds, name \in Names : GoriilaRegister(id, name)

SpecRegister == InitRegister /\ [][NextRegister]_vars

(***************************************************************************)
(* The registration conversation of one chat.  `flow' holds the state the  *)
(* ConversationHandler keeps for the chat ("END" for no conversation) and  *)
(* context.user_data['registration']: whether the key is present, the keys *)
(* of the buffer, the name typed and the interests chosen.  A handler      *)
(* returns the next state and the buffer; the state "raise" stands for an  *)
(* exception, after which the ConversationHandler keeps the state it had.  *)
(***************************************************************************)
ChatUser == 1

\* The tags are numbered; NumTags of them appear on the keyboards.
NumTags == 6

\* rrr.py:47-51, the list TAGS (eleven names in the source): every tag of
\* the keyboards but the last.
TAGS == 1 .. NumTags - 1

\* popular_tags of handle_registration_bio and handle_registration_interests
\* (rrr.py:770, 915; six names in the source): names of TAGS and
\* "Путешествия", the tag NumTags here, which is not in TAGS.
popular_tags == {1, 2, NumTags}

\* The tags of the keyboards of the interests step: show_all_tags_callback
\* offers TAGS, the other keyboards offer popular_tags.
Tags == TAGS \cup popular_tags

\* interests.append(tag) only while len(interests) < 5.
MaxInterests == 5

MIN_AGE == 18

MAX_AGE == 100

MAX_BIO_LENGTH == 500

\* The lengths of the texts typed as a bio, after strip().
BioLengths == {1, MAX_BIO_LENGTH, MAX_BIO_LENGTH + 1}

\* reg[key] = value for a key whose value the model does not keep.
SetKey(reg, key) == [reg EXCEPT !.present = TRUE, !.keys = @ \cup {key}]

\* The messages typed for the name and the age: the number of words, whether
\* the last word is an integer, the words before it, and the integer.
NameAgeTexts ==
    {[parts |-> 1, isint |-> FALSE, name |-> "", age |-> 0]}
    \cup {[parts |-> 2, isint |-> FALSE, name |-> n, age |-> 0] : n \in Names}
    \cup {[parts |-> 2, isint |-> TRUE, name |-> n, age |-> a] :
            n \in Names, a \in {MIN_AGE - 1, MIN_AGE, MAX_AGE, MAX_AGE + 1}}

\* The messages the handler of REG_CITY is given by filters.TEXT |
\* filters.LOCATION: the two buttons, a city name, the command /cancel
\* (filters.TEXT lets commands through) and a location.
CityMessages == {"button_location", "button_manual", "text", "/cancel", "location"}

\* The callback data of the keyboards of the interests step, with the tags
\* of T.
InterestsDataOf(T) ==
    {[kind |-> k, tag |-> 0] : k \in {"all_tags", "back_to_popular", "tags_done"}}
    \cup {[kind |-> "tag", tag |-> t] : t \in T}

InterestsData == InterestsDataOf(Tags)

\* The tags pressed where the whole registration is followed.
MaxFlowTags == 2

FlowTags == 1 .. MaxFlowTags

\* handle_registration_photo: the buffer is replaced by a new one.
handle_registration_photo(reg) ==
    [state |-> "REG_NAME_AGE",
     registration |-> [present |-> TRUE, keys |-> {"photos", "step"},
                       name |-> "", age |-> 0, bio |-> 0, interests |-> << >>]]

\* A variant of handle_registration_name_age without the test of the range.
handle_registration_name_age_any_age(reg, text) ==
    IF text.parts < 2 \/ ~text.isint
    THEN [state |-> "REG_NAME_AGE", registration |-> reg]
    ELSE [state |-> "REG_GENDER",
          registration |-> [SetKey(SetKey(reg, "name"), "age")
                               EXCEPT !.name = text.name, !.age = text.age]]

handle_registration_name_age(reg, text) ==
    IF text.parts < 2 \/ ~text.isint
    THEN [state |-> "REG_NAME_AGE", registration |-> reg]
    ELSE IF ~(MIN_AGE <= text.age /\ text.age <= MAX_AGE)
    THEN [state |-> "REG_NAME_AGE", registration |-> reg]
    ELSE [state |-> "REG_GENDER",
          registration |-> [SetKey(SetKey(reg, "name"), "age")
                               EXCEPT !.name = text.name, !.age = text.age]]

\* A variant of handle_registration_gender that writes the key before it
\* looks the choice up.
handle_registration_gender_stores_first(reg, known) ==
    IF ~known
    THEN [state |-> IF variant = "rrr" THEN "raise" ELSE "REG_GENDER",
          registration |-> SetKey(reg, "gender")]
    ELSE [state |-> "REG_CITY", registration |-> SetKey(reg, "gender")]

\* rrr.py: a button of the gender keyboard; ridon.py: a text, which is one
\* of the two of gender_map or not.
handle_registration_gender(reg, known) ==
    IF ~known
    THEN [state |-> IF variant = "rrr" THEN "raise" ELSE "REG_GENDER",
          registration |-> reg]
    ELSE [state |-> "REG_CITY", registration |-> SetKey(reg, "gender")]

handle_registration_city(reg, message) ==
    IF message \in {"button_location", "button_manual"}
    THEN [state |-> "REG_CITY", registration |-> reg]
    ELSE IF message = "location"
    THEN [state |-> "REG_BIO",
          registration |-> SetKey(SetKey(SetKey(reg, "latitude"), "longitude"), "city")]
    ELSE [state |-> "REG_BIO", registration |-> SetKey(reg, "city")]

\* rrr.py, handle_registration_bio: the bio is kept and the tags are shown.
rrr_handle_registration_bio(reg, bio) ==
    IF bio > MAX_BIO_LENGTH
    THEN [state |-> "REG_BIO", registration |-> reg]
    ELSE [state |-> "REG_INTERESTS",
          registration |-> [SetKey(reg, "bio") EXCEPT !.bio = bio]]

\* tag in interests
Contains(interests, tag) == \E i \in DOMAIN interests : interests[i] = tag

\* interests.remove(tag): the list without the first tag equal to `tag'.
Remove(interests, tag) ==
    LET i == CHOOSE k \in DOMAIN interests :
                 /\ interests[k] = tag
                 /\ \A j \in 1 .. (k - 1) : interests[j] # tag
    IN  SubSeq(interests, 1, i - 1) \o SubSeq(interests, i + 1, Len(interests))

\* A variant of handle_registration_interests that appends a tag whatever
\* the length of the list.
handle_registration_interests_no_limit(reg, data) ==
    IF data.kind = "all_tags"
    THEN [state |-> "REG_INTERESTS", registration |-> reg]
    ELSE IF data.kind = "back_to_popular"
    THEN [state |-> "raise", registration |-> reg]
    ELSE IF data.kind = "tags_done"
    THEN [state |-> IF reg.interests = << >> THEN "REG_INTERESTS" ELSE "REG_GOAL",
          registration |-> reg]
    ELSE IF Contains(reg.interests, data.tag)
    THEN [state |-> "REG_INTERESTS",
          registration |-> [SetKey(reg, "interests") EXCEPT !.interests = Remove(@, data.tag)]]
    ELSE [state |-> "REG_INTERESTS",
          registration |-> [SetKey(reg, "interests") EXCEPT !.interests = Append(@, data.tag)]]

\* A variant of handle_registration_interests in which the button
\* back_to_popular leads back to the bio step.
handle_registration_interests_back(reg, data) ==
    IF data.kind = "all_tags"
    THEN [state |-> "REG_INTERESTS", registration |-> reg]
    ELSE IF data.kind = "back_to_popular"
    THEN [state |-> "REG_BIO", registration |-> reg]
    ELSE IF data.kind = "tags_done"
    THEN [state |-> IF reg.interests = << >> THEN "REG_INTERESTS" ELSE "REG_GOAL",
          registration |-> reg]
    ELSE IF Contains(reg.interests, data.tag)
    THEN [state |-> "REG_INTERESTS",
          registration |-> [SetKey(reg, "interests") EXCEPT !.interests = Remove(@, data.tag)]]
    ELSE IF Len(reg.interests) < MaxInterests
    THEN [state |-> "REG_INTERESTS",
          registration |-> [SetKey(reg, "interests") EXCEPT !.interests = Append(@, data.tag)]]
    ELSE [state |-> "REG_INTERESTS", registration |-> reg]

\* rrr.py, handle_registration_interests.  back_to_popular_callback calls
\* handle_registration_bio with the update of a button, whose message is
\* None: update.message.text raises AttributeError.
handle_registration_interests(reg, data) ==
    IF data.kind = "all_tags"
    THEN [state |-> "REG_INTERESTS", registration |-> reg]
    ELSE IF data.kind = "back_to_popular"
    THEN [state |-> "raise", registration |-> reg]
    ELSE IF data.kind = "tags_done"
    THEN [state |-> IF reg.interests = << >> THEN "REG_INTERESTS" ELSE "REG_GOAL",
          registration |-> reg]
    ELSE IF Contains(reg.interests, data.tag)
    THEN [state |-> "REG_INTERESTS",
          registration |-> [SetKey(reg, "interests") EXCEPT !.interests = Remove(@, data.tag)]]
    ELSE IF Len(reg.interests) < MaxInterests
    THEN [state |-> "REG_INTERESTS",
          registration |-> [SetKey(reg, "interests") EXCEPT !.interests = Append(@, data.tag)]]
    ELSE [state |-> "REG_INTERESTS", registration |-> reg]

\* reg_data.get('age'): None, here the empty tuple, without the key.
GetAge(reg) == IF "age" \in reg.keys THEN <<reg.age>> ELSE << >>

\* The user_data that the last handler of the flow builds from the buffer.
RegistrationUserData(reg) ==
    [telegram_id |-> ChatUser, full_name |-> reg.name, age |-> GetAge(reg),
     bio |-> IF "bio" \in reg.keys THEN reg.bio ELSE 0,
     interests |-> reg.interests]

\* The end of the flow, handle_registration_goal in rrr.py and
\* handle_registration_bio in ridon.py, after the last field is in the
\* buffer: user_data is built from the buffer, db.create_user(user_data) is
\* called and the buffer is dropped when it returned a user.  The
\* conversation ends either way.
\* A variant of commit_registration that ends the flow without create_user.
commit_registration_no_create(P, reg) ==
    [db |-> P, ret |-> "None", registration |-> reg]

\* A variant of commit_registration that drops the buffer whatever
\* create_user returned.
commit_registration_drop(P, reg) ==
    LET res == create_user(P, RegistrationUserData(reg))
    IN  [db |-> res.db, ret |-> res.ret, registration |-> NoRegistration]

commit_registration(P, reg) ==
    LET res == create_user(P, RegistrationUserData(reg))
    IN  [db |-> res.db, ret |-> res.ret,
         registration |-> IF res.ret = "user" THEN NoRegistration ELSE reg]

\* The state after a handler returned `res': an exception keeps both.
AfterHandler(res) ==
    IF res.state = "raise"
    THEN flow
    ELSE [state |-> res.state, registration |-> res.registration]

FlowCall(op, ret, path) ==
    [op |-> op, a |-> ChatUser, b |-> 0, ret |-> ret, ret_user |-> 0, path |-> path]

FlowStep(op, res) ==
    /\ flow' = AfterHandler(res)
    /\ last' = FlowCall(op, res.state, "")
    /\ UNCHANGED <<host, now, users, likes, matches, procs, hist>>
    /\ UNCHANGED <<reports, report_seq, views, profiles, edit>>

\* A step of a handler whose input is kept in `last'.
FlowInput(op, res, input) ==
    /\ flow' = AfterHandler(res)
    /\ last' = [op |-> op, a |-> ChatUser, b |-> 0, ret |-> res.state,
                ret_user |-> 0, path |-> "", input |-> input]
    /\ UNCHANGED <<host, now, users, likes, matches, procs, hist>>
    /\ UNCHANGED <<reports, report_seq, views, profiles, edit>>

\* The entry point: the button start_registration in rrr.py, the command
\* /start in ridon.py (start_command returns REG_PHOTO with or without a
\* profile).  Entry points are tried only when no conversation is under way.
StartRegistration ==
    /\ flow.state = "END"
    /\ FlowStep("start_registration",
                [state |-> "REG_PHOTO", registration |-> flow.registration])

RegistrationPhoto ==
    /\ flow.state = "REG_PHOTO"
    /\ FlowStep("handle_registration_photo",
                handle_registration_photo(flow.registration))

RegistrationNameAge(text) ==
    /\ flow.state = "REG_NAME_AGE"
    /\ FlowInput("handle_registration_name_age",
                 handle_registration_name_age(flow.registration, text), text)

RegistrationGender(known) ==
    /\ flow.state = "REG_GENDER"
    /\ FlowInput("handle_registration_gender",
                 handle_registration_gender(flow.registration, known), known)

\* The call of a handler of a city, with the message it was given.
CityCall(op, ret, path, message) ==
    [op |-> op, a |-> ChatUser, b |-> 0, ret |-> ret, ret_user |-> 0,
     path |-> path, message |-> message]

RegistrationCity(message) ==
    /\ flow.state = "REG_CITY"
    /\ LET res == handle_registration_city(flow.registration, message)
       IN  /\ flow' = AfterHandler(res)
           /\ last' = CityCall("handle_registration_city", res.state, "", message)
    /\ UNCHANGED <<host, now, users, likes, matches, procs, hist>>
    /\ UNCHANGED <<reports, report_seq, views, profiles, edit>>

RegistrationBio(bio) ==
    /\ flow.state = "REG_BIO"
    /\ variant = "rrr"
    /\ FlowInput("handle_registration_bio",
                 rrr_handle_registration_bio(flow.registration, bio), bio)

\* The button pressed is kept in `last': its kind in path, its tag in b.
RegistrationInterests(data) ==
    /\ flow.state = "REG_INTERESTS"
    /\ variant = "rrr"
    /\ LET res == handle_registration_interests(flow.registration, data)
       IN  /\ flow' = AfterHandler(res)
           /\ last' = [FlowCall("handle_registration_interests", res.state, data.kind)
                           EXCEPT !.b = data.tag]
    /\ UNCHANGED <<host, now, users, likes, matches, procs, hist>>
    /\ UNCHANGED <<reports, report_seq, views, profiles, edit>>

\* The commit: the conversation ends, with the rows and the buffer that
\* commit_registration leaves.
CommitStep(op, res) ==
    /\ profiles' = res.db
    /\ flow' = [state |-> "END", registration |-> res.registration]
    /\ last' = FlowCall(op, res.ret, "commit")
    /\ UNCHANGED <<host, now, users, likes, matches, procs, hist>>
    /\ UNCHANGED <<reports, report_seq, views, edit>>

\* rrr.py, handle_registration_goal: a button of the goal keyboard.
RegistrationGoal ==
    /\ variant = "rrr"
    /\ flow.state = "REG_GOAL"
    /\ CommitStep("handle_registration_goal",
                  commit_registration(profiles, SetKey(flow.registration, "goal")))

\* ridon.py, handle_registration_bio: a bio that is too long is asked for
\* again, another one is the last field of the flow.
RidonRegistrationBio(bio) ==
    /\ variant = "ridon"
    /\ flow.state = "REG_BIO"
    /\ IF bio > MAX_BIO_LENGTH
       THEN FlowInput("handle_registration_bio",
                      [state |-> "REG_BIO", registration |-> flow.registration], bio)
       ELSE CommitStep("handle_registration_bio",
                       commit_registration(profiles,
                           [SetKey(flow.registration, "bio") EXCEPT !.bio = bio]))

\* The fallback /cancel.  The handlers of the state come before the
\* fallbacks, and in REG_CITY filters.TEXT takes the command as a city.
Cancel ==
    /\ flow.state \notin {"END", "REG_CITY"}
    /\ FlowStep("cancel", [state |-> "END", registration |-> flow.registration])

(***************************************************************************)
(* The edit conversation of ridon.py, edit_profile_handler; `edit' is its  *)
(* state for the chat.  registration_handler is added before it, in the    *)
(* same group: an update reaches edit_profile_handler only when the        *)
(* registration conversation has no handler for it in its state.           *)
(***************************************************************************)
\* The states of registration_handler whose handler takes a text that is
\* not a command.
TextStates == {"REG_NAME_AGE", "REG_GENDER", "REG_CITY", "REG_BIO"}

\* UPDATE users SET ... WHERE telegram_id = ?, for the columns in `keys'.
update_user(P, telegram_id, keys, values) ==
    LET old == {r \in Rows(P) : r.telegram_id = telegram_id}
        new(r) == [telegram_id |-> r.telegram_id,
                   full_name |-> IF "full_name" \in keys THEN values.full_name
                                                         ELSE r.full_name,
                   age |-> IF "age" \in keys THEN <<values.age>> ELSE r.age,
                   bio |-> IF "bio" \in keys THEN values.bio ELSE r.bio,
                   interests |-> r.interests]
    IN  IF old = {}
        THEN [db |-> P, ret |-> "False"]
        ELSE [db |-> KeepRows(P, Rows(P) \ old) (+) SetToBag({new(r) : r \in old}),
              ret |-> "True"]

NoValues == [full_name |-> "", age |-> 0, bio |-> 0]

\* A handler of edit_profile_handler has returned `state' (None: the state
\* is kept) and left the rows `db'.
EditStep(op, state, db, path) ==
    /\ edit' = IF state = "None" THEN edit ELSE state
    /\ profiles' = db
    /\ last' = FlowCall(op, state, path)
    /\ UNCHANGED <<host, now, users, likes, matches, procs, hist>>
    /\ UNCHANGED <<reports, report_seq, views, flow>>

\* start_edit_profile, on the text of the button: without a profile it
\* returns None and no conversation starts.
StartEditProfile ==
    /\ variant = "ridon"
    /\ edit = "END"
    /\ flow.state \notin TextStates
    /\ EditStep("start_edit_profile",
                IF HasProfile(profiles, ChatUser) THEN "EDIT_PROFILE" ELSE "None",
                profiles, "")

\* The buttons of the menu of fields: handle_edit_name_age, handle_edit_bio,
\* handle_edit_photo, handle_edit_city, and profile_command, which returns
\* None.
EditFields ==
    {"EDIT_NAME_AGE", "EDIT_BIO", "EDIT_PHOTO", "EDIT_CITY", "None"}

EditMenu(field) ==
    /\ variant = "ridon"
    /\ edit = "EDIT_PROFILE"
    /\ flow.state \notin TextStates
    /\ EditStep("handle_edit_menu", field, profiles, "")

handle_edit_name_age_input(P, text) ==
    IF text.parts < 2 \/ ~text.isint
    THEN [state |-> "EDIT_NAME_AGE", db |-> P, path |-> ""]
    ELSE IF ~(MIN_AGE <= text.age /\ text.age <= MAX_AGE)
    THEN [state |-> "EDIT_NAME_AGE", db |-> P, path |-> ""]
    ELSE [state |-> "EDIT_PROFILE",
          db |-> update_user(P, ChatUser, {"full_name", "age"},
                             [NoValues EXCEPT !.full_name = text.name,
                                              !.age = text.age]).db,
          path |-> "update_user"]

handle_edit_bio_input(P, bio) ==
    IF bio > MAX_BIO_LENGTH
    THEN [state |-> "EDIT_BIO", db |-> P, path |-> ""]
    ELSE [state |-> "EDIT_PROFILE",
          db |-> update_user(P, ChatUser, {"bio"}, [NoValues EXCEPT !.bio = bio]).db,
          path |-> "update_user"]

\* handle_edit_photo_input: filters.PHOTO lets only photos through; the
\* photo is stored and the handler returns States.EDIT_PHOTO.
handle_edit_photo_input(P) ==
    [state |-> "EDIT_PHOTO",
     db |-> update_user(P, ChatUser, {"profile_photos"}, NoValues).db,
     path |-> "update_user"]

handle_edit_city_input(P, message) ==
    IF message \in {"button_location", "button_manual"}
    THEN [state |-> "EDIT_CITY", db |-> P, path |-> ""]
    ELSE IF message = "location"
    THEN [state |-> "EDIT_PROFILE",
          db |-> update_user(P, ChatUser, {"latitude", "longitude", "city"}, NoValues).db,
          path |-> "update_user"]
    ELSE [state |-> "EDIT_PROFILE",
          db |-> update_user(P, ChatUser, {"city"}, NoValues).db,
          path |-> "update_user"]

EditResult(op, res) == EditStep(op, res.state, res.db, res.path)

\* A step of a handler of the edit conversation whose input is kept in
\* `last'.
EditInput(op, res, input) ==
    /\ edit' = res.state
    /\ profiles' = res.db
    /\ last' = [op |-> op, a |-> ChatUser, b |-> 0, ret |-> res.state,
                ret_user |-> 0, path |-> res.path, input |-> input]
    /\ UNCHANGED <<host, now, users, likes, matches, procs, hist>>
    /\ UNCHANGED <<reports, report_seq, views, flow>>

EditNameAgeInput(text) ==
    /\ variant = "ridon"
    /\ edit = "EDIT_NAME_AGE"
    /\ flow.state \notin TextStates
    /\ EditInput("handle_edit_name_age_input",
                 handle_edit_name_age_input(profiles, text), text)

EditBioInput(bio) ==
    /\ variant = "ridon"
    /\ edit = "EDIT_BIO"
    /\ flow.state \notin TextStates
    /\ EditInput("handle_edit_bio_input", handle_edit_bio_input(profiles, bio), bio)

EditPhotoInput ==
    /\ variant = "ridon"
    /\ edit = "EDIT_PHOTO"
    /\ flow.state # "REG_PHOTO"
    /\ EditResult("handle_edit_photo_input", handle_edit_photo_input(profiles))

\* A command reaches the handler of EDIT_CITY only when no registration
\* conversation is under way, whose fallback or REG_CITY would take it.
EditCityInput(message) ==
    /\ variant = "ridon"
    /\ edit = "EDIT_CITY"
    /\ flow.state # "REG_CITY"
    /\ message = "/cancel" => flow.state = "END"
    /\ message \in {"button_location", "button_manual", "text"}
          => flow.state \notin TextStates
    /\ LET res == handle_edit_city_input(profiles, message)
       IN  /\ edit' = res.state
           /\ profiles' = res.db
           /\ last' = CityCall("handle_edit_city_input", res.state, res.path, message)
    /\ UNCHANGED <<host, now, users, likes, matches, procs, hist>>
    /\ UNCHANGED <<reports, report_seq, views, flow>>

\* /cancel in the edit conversation, with no registration conversation
\* under way; in EDIT_CITY the handler of the state takes the command.
EditCancel ==
    /\ variant = "ridon"
    /\ edit \notin {"END", "EDIT_CITY"}
    /\ flow.state = "END"
    /\ EditStep("cancel", "END", profiles, "")

\* rrr or ridon, the chat's user with or without a profile, no conversation.
InitFlow ==
    /\ variant \in {"rrr", "ridon"}
    /\ now = 0
    /\ users = << >>
    /\ likes = EmptyBag
    /\ matches = EmptyBag
    /\ procs = [p \in Procs |-> IdleProc]
    /\ last = NoCall
    /\ hist = NoHist
    /\ reports = {}
    /\ report_seq = 0
    /\ views = {}
    /\ profiles \in {EmptyBag} \cup
                     {SetToBag({[telegram_id |-> ChatUser, full_name |-> n,
                                 age |-> <<MIN_AGE>>, bio |-> 0,
                                 interests |-> IF variant = "rrr" THEN <<1>>
                                                                  ELSE << >>]}) :
                        n \in Names}
    /\ flow = NoFlow
    /\ edit = "END"
    /\ utc_offset = 0
    /\ foreign_keys = FALSE

\* rrr.py in the middle of a registration: the photo, the name and the age,
\* the gender and the city are in the buffer and the bio is awaited.
AtBio ==
    [state |-> "REG_BIO",
     registration |-> [present |-> TRUE,
                       keys |-> {"photos", "step", "name", "age", "gender", "city"},
                       name |-> "Ann", age |-> MIN_AGE, bio |-> 0,
                       interests |-> << >>]]

InitInterests ==
    /\ variant = "rrr"
    /\ now = 0
    /\ users = << >>
    /\ likes = EmptyBag
    /\ matches = EmptyBag
    /\ procs = [p \in Procs |-> IdleProc]
    /\ last = NoCall
    /\ hist = NoHist
    /\ reports = {}
    /\ report_seq = 0
    /\ views = {}
    /\ profiles = EmptyBag
    /\ flow = AtBio
    /\ edit = "END"
    /\ utc_offset = 0
    /\ foreign_keys = FALSE

\* The steps from the bio to the commit, with every tag of the keyboards.
NextInterests ==
    \/ \E bio \in BioLengths : RegistrationBio(bio)
    \/ \E data \in InterestsData : RegistrationInterests(data)
    \/ RegistrationGoal

SpecInterests == InitInterests /\ [][NextInterests]_vars

NextFlow ==
    \/ StartRegistration
    \/ RegistrationPhoto
    \/ \E text \in NameAgeTexts : RegistrationNameAge(text)
    \/ \E known \in BOOLEAN : RegistrationGender(known)
    \/ \E message \in CityMessages : RegistrationCity(message)
    \/ \E bio \in BioLengths : RegistrationBio(bio)
    \/ \E data \in InterestsDataOf(FlowTags) : RegistrationInterests(data)
    \/ RegistrationGoal
    \/ \E bio \in BioLengths : RidonRegistrationBio(bio)
    \/ StartEditProfile
    \/ \E field \in EditFields : EditMenu(field)
    \/ \E text \in NameAgeTexts : EditNameAgeInput(text)
    \/ \E bio \in BioLengths : EditBioInput(bio)
    \/ EditPhotoInput
    \/ \E message \in CityMessages : EditCityInput(message)
    \/ EditCancel
    \/ Cancel

SpecFlow == InitFlow /\ [][NextFlow]_vars

(***************************************************************************)
(* ridon.py: reports, profile views and delete_user.  A store here is a    *)
(* record [users, likes, reports, report_seq, views]; report_seq is the    *)
(* last report_id given out (AUTOINCREMENT: an id is never given twice).   *)
(***************************************************************************)
AdminStore ==
    [users |-> users, likes |-> likes, reports |-> reports,
     report_seq |-> report_seq, views |-> views]

\* create_report: both profiles are read first; INSERT INTO reports
\* (reporter_id, reported_user_id, reason); status DEFAULT 'pending'.
create_report(db, reporter, reported, hour) ==
    IF ~Registered(db, reporter) \/ ~Registered(db, reported)
    THEN [db |-> db, ret |-> "False"]
    ELSE [db |-> [db EXCEPT !.report_seq = @ + 1,
                            !.reports = @ \cup
                               {[report_id |-> db.report_seq + 1,
                                 reporter_id |-> reporter,
                                 reported_user_id |-> reported,
                                 status |-> "pending", created_at |-> hour]}],
          ret |-> "True"]

\* A variant of pending_where that lets every status through.
pending_where_any_status(db, r) ==
    /\ Registered(db, r.reporter_id)
    /\ Registered(db, r.reported_user_id)

\* get_pending_reports: JOIN users u1 ON r.reporter_id = u1.user_id JOIN
\* users u2 ON r.reported_user_id = u2.user_id WHERE r.status = 'pending'
pending_where(db, r) ==
    /\ Registered(db, r.reporter_id)
    /\ Registered(db, r.reported_user_id)
    /\ r.status = "pending"

\* get_pending_reports: ORDER BY r.created_at DESC LIMIT 50.  The results
\* the query may give: the rows of the WHERE clause, or, when there are more
\* than the limit, any PENDING_REPORTS_LIMIT of them with no row left out
\* that is newer than a row kept.
get_pending_reports(db) ==
    LET P == {r \in db.reports : pending_where(db, r)}
    IN  IF Cardinality(P) <= PENDING_REPORTS_LIMIT THEN {P}
        ELSE {S \in SUBSET P :
                /\ Cardinality(S) = PENDING_REPORTS_LIMIT
                /\ \A x \in S, y \in P \ S : x.created_at >= y.created_at}

\* The values of reports.status the CHECK constraint lets through.
ReportStatuses == {"pending", "reviewed", "resolved", "dismissed"}

\* update_report_status: UPDATE reports SET status = ?, admin_notes = ?
\* WHERE report_id = ?; returns cursor.rowcount > 0.
update_report_status(db, report_id, status) ==
    IF ~\E r \in db.reports : r.report_id = report_id
    THEN [db |-> db, ret |-> "False"]
    ELSE IF status \notin ReportStatuses
    THEN [db |-> db, ret |-> "raise"]     \* CHECK fails: rollback
    ELSE [db |-> [db EXCEPT !.reports =
                    {IF r.report_id = report_id THEN [r EXCEPT !.status = status]
                                                ELSE r : r \in @}],
          ret |-> "True"]

\* delete_user: DELETE FROM users WHERE telegram_id = ?.  likes, reports and
\* profile_views declare ON DELETE CASCADE, which SQLite applies only on a
\* connection with foreign keys switched on (fk); get_connection never
\* switches them on, so fk is the default of the SQLite build.
delete_user(db, id, fk) ==
    IF ~Registered(db, id) THEN [db |-> db, ret |-> "False"]
    ELSE IF fk
    THEN [db |-> [db EXCEPT
              !.users = [u \in DOMAIN @ \ {id} |-> @[u]],
              !.likes = KeepRows(@, {r \in Rows(@) :
                            r.from_user_id # id /\ r.to_user_id # id}),
              !.reports = {r \in @ : r.reporter_id # id /\ r.reported_user_id # id},
              !.views = {v \in @ : v[1] # id /\ v[2] # id}],
          ret |-> "True"]
    ELSE [db |-> [db EXCEPT !.users = [u \in DOMAIN @ \ {id} |-> @[u]]],
          ret |-> "True"]

CommitAdmin(db) ==
    /\ users' = db.users
    /\ likes' = db.likes
    /\ reports' = db.reports
    /\ report_seq' = db.report_seq
    /\ views' = db.views

CreateReport(reporter, reported) ==
    /\ variant = "ridon"
    /\ report_seq < MaxReports
    /\ LET res == create_report(AdminStore, reporter, reported, now)
       IN  /\ CommitAdmin(res.db)
           /\ last' = [NoCall EXCEPT !.op = "create_report", !.a = reporter,
                                     !.b = reported, !.ret = res.ret]
    /\ UNCHANGED <<host, now, matches, procs, hist, profiles, flow, edit>>

\* get_pending_reports(): the rows returned are in last.rows.
GetPendingReports ==
    /\ variant = "ridon"
    /\ \E S \in get_pending_reports(AdminStore) :
          last' = [op |-> "get_pending_reports", a |-> 0, b |-> 0, ret |-> "",
                   ret_user |-> 0, path |-> "", rows |-> S]
    /\ UNCHANGED <<host, side, now, users, likes, matches, procs, hist>>

\* /resolve and /dismiss: update_report_status(report_id, 'resolved' or
\* 'dismissed', comment) for the number the administrator typed.
UpdateReportStatus(report_id, status) ==
    /\ variant = "ridon"
    /\ LET res == update_report_status(AdminStore, report_id, status)
       IN  /\ CommitAdmin(res.db)
           /\ last' = [NoCall EXCEPT !.op = "update_report_status", !.a = report_id,
                                     !.ret = res.ret, !.path = status]
    /\ UNCHANGED <<host, now, matches, procs, hist, profiles, flow, edit>>

\* handle_delete_confirmation: delete_user(user.id)
DeleteUser(id) ==
    /\ variant = "ridon"
    /\ LET res == delete_user(AdminStore, id, foreign_keys)
       IN  /\ CommitAdmin(res.db)
           /\ last' = [NoCall EXCEPT !.op = "delete_user", !.a = id, !.ret = res.ret]
    /\ UNCHANGED <<host, now, matches, procs, hist, profiles, flow, edit>>

\* ridon.py on a build of SQLite with either default for foreign keys.
InitAdmin ==
    /\ InitTables
    /\ InitSide
    /\ variant = "ridon"
    /\ utc_offset = 0
    /\ foreign_keys \in BOOLEAN

\* The reports the runs file: 1 and 2 report each other, and 1 reports 4,
\* who has no profile.
ReportCalls == {<<1, 2>>, <<2, 1>>, <<1, 4>>}

\* ridon.py: likes, browsing, reports and the deletion of a profile.
NextDelete ==
    \/ \E c \in Calls : CreateLike(c[1], c[2])
    \/ \E v \in Callers : GetNextProfile(v)
    \/ \E c \in ReportCalls : CreateReport(c[1], c[2])
    \/ \E id \in Callers : DeleteUser(id)

SpecDelete == InitAdmin /\ [][NextDelete]_vars

\* ridon.py: the reports, their list and their handling by the administrator.
NextReports ==
    \/ \E c \in ReportCalls : CreateReport(c[1], c[2])
    \/ GetPendingReports
    \/ \E id \in 1..MaxReports, status \in {"resolved", "dismissed"} :
          UpdateReportStatus(id, status)
    \/ \E id \in Callers : DeleteUser(id)

SpecReports == InitAdmin /\ [][NextReports]_vars

\* The offsets of the host's local time from UTC, in hours.
HostOffsets == {0 - 3, 0, 3}

\* rrr.py on a host in any of these time zones.
InitHost ==
    /\ InitTables
    /\ InitSide
    /\ variant = "rrr"
    /\ utc_offset \in HostOffsets
    /\ foreign_keys = FALSE

\* rrr.py: likes, the list of active matches, the sweep and the clock.
NextMatches ==
    \/ \E c \in Calls : CreateLike(c[1], c[2])
    \/ \E v \in Callers : GetActiveMatches(v)
    \/ SweepExpired
    \/ Wait

SpecMatches == InitHost /\ [][NextMatches]_vars

\* Likes, browsing and bans on one day, one call at a time.
NextBrowse ==
    \/ \E c \in Calls : CreateLike(c[1], c[2])
    \/ \E v \in Callers : GetNextProfile(v)
    \/ \E id \in Bannable : BanUser(id)
    \/ \E id \in Bannable : UnbanUser(id)

SpecBrowse == Init /\ [][NextBrowse]_vars

(***************************************************************************)
(* Concurrent calls of create_like, each on a connection of its own.       *)
(* from_user and to_user are read through get_user_by_telegram_id, which   *)
(* opens and closes its own connection: they are a copy of the rows that   *)
(* other calls may change before this call's first write.  From its first  *)
(* write to its commit the call holds SQLite's write lock, no other        *)
(* connection can write, and its own reads see the committed store and     *)
(* its writes: that part is one step.                                      *)
(***************************************************************************)
\* lines 327-334 of rrr.py, 444-451 of ridon.py: the two reads and today.
LikeRead(p, f, t) ==
    /\ procs[p].pc = "idle"
    /\ procs' = [procs EXCEPT ![p] =
          [pc |-> "read", f |-> f, t |-> t,
           from_user |-> UsedOfFrom(get_user_by_telegram_id(Store, f)),
           to_user |-> UsedOfTo(get_user_by_telegram_id(Store, t)),
           today |-> Today(now)]]
    /\ UNCHANGED <<host, side, now, users, likes, matches, last, hist>>

\* The rest of create_like, from the stale-date check to the commit.
LikeWrite(p) ==
    /\ procs[p].pc = "read"
    /\ LET c   == procs[p]
           res == create_like(Store, c.from_user, c.to_user, c.f, c.t,
                              c.today, now, "none", FALSE)
       IN  /\ WithinCaps(res.db)
           /\ Commit(res.db)
           /\ last' = [op |-> "create_like", a |-> c.f, b |-> c.t, ret |-> res.ret,
                       ret_user |-> res.ret_user, path |-> res.path,
                       stale |-> FoundStale(c.from_user, c.today)]
           /\ hist' = Bump(hist, c.f, c.t, res.path)
    /\ procs' = [procs EXCEPT ![p] = IdleProc]
    /\ UNCHANGED <<host, side, now>>

NextConc ==
    \/ \E p \in Procs, c \in Calls : LikeRead(p, c[1], c[2])
    \/ \E p \in Procs : LikeWrite(p)

SpecConc == Init /\ [][NextConc]_vars

(***************************************************************************)
(* One call at a time, with a statement of create_like that raises.        *)
(***************************************************************************)
CreateLikeFailing(f, t, fail, rolled) ==
    /\ AllIdle
    /\ fail # "none"
    /\ LET res == create_like(Store, get_user_by_telegram_id(Store, f),
                              get_user_by_telegram_id(Store, t),
                              f, t, Today(now), now, fail, rolled)
       IN  /\ WithinCaps(res.db)
           /\ Commit(res.db)
           /\ last' = [op |-> "create_like", a |-> f, b |-> t, ret |-> res.ret,
                       ret_user |-> res.ret_user, path |-> res.path,
                       stale |-> FoundStale(get_user_by_telegram_id(Store, f),
                                            Today(now))]
    /\ UNCHANGED <<host, side, now, procs, hist>>

NextFail ==
    \/ \E c \in Calls : CreateLike(c[1], c[2])
    \/ \E c \in Calls, fail \in FailPoints, rolled \in BOOLEAN :
          CreateLikeFailing(c[1], c[2], fail, rolled)
    \/ Tick

SpecFail == Init /\ [][NextFail]_vars

(***************************************************************************)
(* The columns the claims speak of, under the names of either variant.     *)
(***************************************************************************)
\* likes_today (rrr.py) / likes_given_today (ridon.py)
LikesToday(row) ==
    IF variant = "rrr" THEN row.likes_today ELSE row.likes_given_today

\* likes_reset_date (rrr.py) / last_like_reset_date (ridon.py)
ResetDate(row) ==
    IF variant = "rrr" THEN row.likes_reset_date ELSE row.last_like_reset_date

\* An active row of matches pairs a and b.
ActiveMatch(M, a, b) ==
    \E m \in Rows(M) :
        /\ m.is_active
        /\ \/ (m.user1_id = a /\ m.user2_id = b)
           \/ (m.user1_id = b /\ m.user2_id = a)

StoreUnchanged == users' = users /\ likes' = likes /\ matches' = matches

(***************************************************************************)
(* C1.  rrr.py: when create_like(1, 2) and create_like(2, 1) have each     *)
(* run once to their end (in either order, or overlapping), starting with  *)
(* no like and no match between 1 and 2, the matches table holds exactly   *)
(* one row for the pair.                                                   *)
(***************************************************************************)
C1_ExactlyOneMatch ==
    (variant = "rrr" /\ hist[<<1, 2>>] = 1 /\ hist[<<2, 1>>] = 1)
        => MatchCount(matches, 1, 2) = 1

C1_Witness ==
    /\ variant = "rrr"
    /\ hist[<<1, 2>>] = 1 /\ hist[<<2, 1>>] = 1
    /\ last.op = "create_like" /\ last.path = "mutual"
    /\ \E p \in Procs : procs[p].pc = "read"

(***************************************************************************)
(* C2.  After any sequence of create_like calls the matches table holds    *)
(* at most one row for each pair of distinct profiles.                     *)
(***************************************************************************)
C2_AtMostOneMatchPerPair ==
    \A a \in Ids, b \in Ids : a # b => MatchCount(matches, a, b) <= 1

(***************************************************************************)
(* C3.  The profile get_next_profile(v) returns is not v, is not a         *)
(* profile v has a like to, and (rrr.py) has no active match with v.       *)
(***************************************************************************)
C3_Exclusion ==
    (last.op = "get_next_profile" /\ last.ret_user # 0)
        => /\ last.ret_user # last.a
           /\ ~HasLike(likes, last.a, last.ret_user)
           /\ ~ActiveMatch(matches, last.a, last.ret_user)

C3_Witness ==
    /\ last.op = "get_next_profile" /\ last.ret_user # 0
    /\ \E u \in Ids : HasLike(likes, last.a, u)
    /\ \E u \in Ids : u # last.a /\ ActiveMatch(matches, last.a, u)

(***************************************************************************)
(* C4.  get_next_profile never returns a profile with is_banned set or     *)
(* is_active cleared.                                                      *)
(***************************************************************************)
C4_NoBannedCandidate ==
    (last.op = "get_next_profile" /\ last.ret_user # 0)
        => /\ ~users[last.ret_user].is_banned
           /\ users[last.ret_user].is_active

C4_Witness ==
    /\ variant = "ridon"
    /\ last.op = "get_next_profile" /\ last.a = 1 /\ last.ret_user # 0
    /\ users[2].is_banned
    /\ ~HasLike(likes, 1, 2)

(***************************************************************************)
(* C5.  With one call at a time, the counter of a profile that is not      *)
(* premium never passes the daily limit, and in a step that does not       *)
(* reset it (the reset date stays) it either stays or grows by one in a    *)
(* create_like of that profile that passed the quota check.                *)
(***************************************************************************)
C5_QuotaBound ==
    [][\A id \in Ids :
         ~users'[id].is_premium =>
           /\ LikesToday(users'[id]) <= LIKES_PER_DAY_FREE
           /\ ResetDate(users'[id]) = ResetDate(users[id]) =>
                \/ LikesToday(users'[id]) = LikesToday(users[id])
                \/ /\ LikesToday(users'[id]) = LikesToday(users[id]) + 1
                   /\ last'.op = "create_like" /\ last'.a = id
                   /\ last'.path \in {"sent", "mutual"}]_vars

C5_Witness ==
    /\ last.op = "create_like" /\ last.path = "sent"
    /\ ~users[last.a].is_premium
    /\ LikesToday(users[last.a]) = LIKES_PER_DAY_FREE

(***************************************************************************)
(* C6.  create_like(c, x) by a profile c that is not premium, whose        *)
(* counter is at the daily limit and whose reset date is today, returns    *)
(* failure and changes no table.                                           *)
(***************************************************************************)
C6_QuotaExceededNoChange ==
    [][(/\ last'.op = "create_like"
        /\ ~users[last'.a].is_premium
        /\ LikesToday(users[last'.a]) = LIKES_PER_DAY_FREE
        /\ ResetDate(users[last'.a]) = Today(now))
       => /\ last'.ret = "False" /\ last'.ret_user = 0
          /\ last'.path \in {"quota", "notfound"}
          /\ StoreUnchanged]_vars

C6_Witness ==
    /\ last.op = "create_like" /\ last.path = "quota"
    /\ LikesToday(users[last.a]) = LIKES_PER_DAY_FREE
    /\ ResetDate(users[last.a]) = Today(now)

(***************************************************************************)
(* C7.  A second create_like(a, b) on the same day, with the like a -> b   *)
(* already stored and no like b -> a, leaves one like a -> b and does not  *)
(* change a's counter.                                                     *)
(***************************************************************************)
C7_DuplicateLikeFree ==
    [][(/\ last'.op = "create_like"
        /\ last'.a # last'.b
        /\ HasLike(likes, last'.a, last'.b)
        /\ ~HasLike(likes, last'.b, last'.a)
        /\ ResetDate(users[last'.a]) = Today(now))
       => /\ LikeCount(likes', last'.a, last'.b) = 1
          /\ LikesToday(users'[last'.a]) = LikesToday(users[last'.a])]_vars

(***************************************************************************)
(* C8.  The likes table holds at most one row for each ordered pair, also  *)
(* when calls of create_like overlap, and a like sent twice ends without   *)
(* an exception.                                                           *)
(***************************************************************************)
C8_UniqueLikeEdge ==
    /\ \A f \in Ids, t \in Ids : LikeCount(likes, f, t) <= 1
    /\ last.ret # "raise"

C8_Witness ==
    /\ hist[<<1, 2>>] = 2
    /\ LikeCount(likes, 1, 2) = 1
    /\ last.op = "create_like" /\ last.a = 1 /\ last.b = 2 /\ last.path = "sent"

(***************************************************************************)
(* C9.  A create_like in which a statement raised leaves none of its       *)
(* writes in the store.                                                    *)
(***************************************************************************)
C9_AllOrNothing ==
    [][(last'.op = "create_like" /\ last'.path \in {"error", "raised"})
       => StoreUnchanged]_vars

(***************************************************************************)
(* C10.  With overlapping calls of create_like, the counter of a profile   *)
(* that is not premium never passes the daily limit.                       *)
(***************************************************************************)
C10_QuotaNotDoubleConsumed ==
    \A id \in Ids :
        ~users[id].is_premium => LikesToday(users[id]) <= LIKES_PER_DAY_FREE

(***************************************************************************)
(* C13.  create_like by a profile whose reset date is not today's, for a   *)
(* registered target, is not refused for quota: the like goes through and  *)
(* the counter ends at 1, whatever it was on the earlier day.              *)
(***************************************************************************)
C13_ResetBeforeQuota ==
    [][(/\ last'.op = "create_like"
        /\ last'.path # "notfound"
        /\ ResetDate(users[last'.a]) # Today(now))
       => /\ last'.path \in {"sent", "mutual"}
          /\ LikesToday(users'[last'.a]) = 1
          /\ ResetDate(users'[last'.a]) = Today(now)]_vars

C13_Witness ==
    /\ last.op = "create_like" /\ last.stale /\ last.path = "sent"
    /\ LikesToday(users[last.a]) = 1
    /\ LikeCount(likes, last.a, 2) = 1 /\ LikeCount(likes, last.a, 3) = 1

(***************************************************************************)
(* C14.  Once a profile's reset date is today's, no operation of the same  *)
(* day lowers its counter: the counter is zeroed at most once a day.       *)
(***************************************************************************)
C14_ResetOncePerDay ==
    [][\A id \in Ids :
         ResetDate(users[id]) = Today(now)
            => LikesToday(users'[id]) >= LikesToday(users[id])]_vars

C14_Witness ==
    /\ last.op = "reset_daily_likes_if_needed"
    /\ Today(now) >= 1
    /\ ResetDate(users[last.a]) = Today(now)
    /\ LikesToday(users[last.a]) >= 1

(***************************************************************************)
(* C15.  Every profile that passes the WHERE clause of get_next_profile    *)
(* for a viewer is a profile the call may return: the choice among the     *)
(* eligible profiles is free.                                              *)
(***************************************************************************)
EligibleFor(v) ==
    {u \in DOMAIN users : IF variant = "rrr" THEN rrr_eligible(Store, v, u)
                                              ELSE ridon_eligible(Store, v, u)}

C15_FreeChoice ==
    \A v \in Callers : \A u \in EligibleFor(v) : u \in get_next_profile(Store, v)

(***************************************************************************)
(* C16.  The users table never holds two rows with the same telegram_id;   *)
(* create_user (register in goriila.py) for an id that has a row does not  *)
(* succeed and changes no row.                                             *)
(***************************************************************************)
ProfileCount(P, id) ==
    BagCardinality(KeepRows(P, {r \in Rows(P) : r.telegram_id = id}))

C16_OneProfilePerIdentity ==
    [][/\ \A id \in TelegramIds : ProfileCount(profiles', id) <= 1
       /\ (last'.op \in {"create_user", "register"} /\ HasProfile(profiles, last'.a))
            => /\ profiles' = profiles
               /\ last'.ret \in {"None", "already"}]_vars

C16_Witness ==
    /\ variant = "rrr"
    /\ last.op = "create_user" /\ last.ret = "None"
    /\ \E r \in Rows(profiles) : r.telegram_id = last.a /\ r.full_name # last.name

(***************************************************************************)
(* C17.  ridon.py: ban_user leaves the profile with is_banned set and      *)
(* is_active cleared, unban_user with is_banned cleared and is_active set, *)
(* each in one step, and no profile is ever banned and active at once.     *)
(***************************************************************************)
C17_BanTogglesBothFlags ==
    [][variant = "ridon" =>
         /\ \A id \in DOMAIN users' : ~(users'[id].is_banned /\ users'[id].is_active)
         /\ last'.op = "ban_user"
              => users'[last'.a].is_banned /\ ~users'[last'.a].is_active
         /\ last'.op = "unban_user"
              => ~users'[last'.a].is_banned /\ users'[last'.a].is_active]_vars

C17_Witness ==
    /\ variant = "ridon"
    /\ last.op = "ban_user"
    /\ users[last.a].is_banned /\ ~users[last.a].is_active

(***************************************************************************)
(* C18.  ridon.py: after delete_user(P) returned True, no row of likes,    *)
(* reports or profile_views refers to P.                                   *)
(***************************************************************************)
C18_DeleteCascades ==
    (last.op = "delete_user" /\ last.ret = "True")
        => /\ \A r \in Rows(likes) : r.from_user_id # last.a /\ r.to_user_id # last.a
           /\ \A r \in reports : r.reporter_id # last.a /\ r.reported_user_id # last.a
           /\ \A v \in views : v[1] # last.a /\ v[2] # last.a

(***************************************************************************)
(* C19.  ridon.py: create_report adds a report with status pending that    *)
(* get_pending_reports returns; update_report_status sets the status       *)
(* given; a report that is resolved or dismissed stays so, and              *)
(* get_pending_reports returns pending reports only, so never that one.    *)
(***************************************************************************)
C19_ReportLifecycle ==
    [][/\ (last'.op = "create_report" /\ last'.ret = "True")
          => \E r \in reports' :
                /\ r.report_id = report_seq' /\ r.report_id > report_seq
                /\ r.reporter_id = last'.a /\ r.reported_user_id = last'.b
                /\ r.status = "pending"
                /\ \A S \in get_pending_reports(AdminStore') : r \in S
       /\ (last'.op = "update_report_status" /\ last'.ret = "True")
          => \E r \in reports' : r.report_id = last'.a /\ r.status = last'.path
       /\ \A r \in reports : r.status \in {"resolved", "dismissed"}
          => /\ \A x \in reports' : x.report_id = r.report_id
                                        => x.status \in {"resolved", "dismissed"}
             /\ \A S \in get_pending_reports(AdminStore') :
                    \A x \in S : x.report_id # r.report_id
       /\ last'.op = "get_pending_reports"
          => \A x \in last'.rows : x \in reports' /\ x.status = "pending"]_vars

C19_Witness ==
    /\ last.op = "get_pending_reports"
    /\ \E r \in reports : r.status \in {"resolved", "dismissed"}
    /\ \E x \in last.rows : x.status = "pending"

(***************************************************************************)
(* C11.  get_active_matches never returns a row of matches whose           *)
(* chat_expires_at is at or before the current time of the host, nor one   *)
(* whose is_active is cleared.                                             *)
(***************************************************************************)
C11_NoExpiredMatchListed ==
    last.op = "get_active_matches"
        => \A m \in Rows(last.rows) : m.chat_expires_at > now /\ m.is_active

(***************************************************************************)
(* C12.  While the one row of matches of a pair is active and its          *)
(* chat_expires_at is still ahead, get_active_matches of either profile    *)
(* returns exactly one row whose partner is the other; and a row of        *)
(* matches is returned for one of its two profiles if and only if it is    *)
(* returned for the other.                                                 *)
(***************************************************************************)
EntriesWith(v, u) ==
    LET R == get_active_matches(Store, v, UtcNow(now))
    IN  BagCardinality(KeepRows(R, {m \in Rows(R) : partner_telegram_id(m, v) = u}))

C12_SymmetricListing ==
    /\ \A a \in Ids, b \in Ids :
          (/\ a # b
           /\ MatchCount(matches, a, b) = 1
           /\ \E m \in Rows(matches) : /\ in_match(m, a) /\ in_match(m, b)
                                        /\ m.is_active /\ now < m.chat_expires_at)
          => EntriesWith(a, b) = 1 /\ EntriesWith(b, a) = 1
    /\ \A m \in Rows(matches) :
          m \in Rows(get_active_matches(Store, m.user1_id, UtcNow(now)))
          <=> m \in Rows(get_active_matches(Store, m.user2_id, UtcNow(now)))

\* The successor of a state of the registration flow; the commit ends the
\* conversation.
FlowSuccessor(state) ==
    CASE state = "REG_PHOTO" -> "REG_NAME_AGE"
      [] state = "REG_NAME_AGE" -> "REG_GENDER"
      [] state = "REG_GENDER" -> "REG_CITY"
      [] state = "REG_CITY" -> "REG_BIO"
      [] state = "REG_BIO" -> IF variant = "rrr" THEN "REG_INTERESTS" ELSE "END"
      [] state = "REG_INTERESTS" -> "REG_GOAL"
      [] state = "REG_GOAL" -> "END"
      [] OTHER -> "none"

\* A step of the pipeline: to the successor, and to the end only through
\* the commit.
PipelineStep ==
    /\ flow'.state = FlowSuccessor(flow.state)
    /\ flow'.state = "END" => last'.path = "commit"

\* C20 as stated: a state of the registration flow changes only to its
\* immediate successor in the order REG_PHOTO, REG_NAME_AGE, REG_GENDER,
\* REG_CITY, REG_BIO, [REG_INTERESTS, REG_GOAL], commit.
C20_StrictLinearPipeline ==
    [][flow.state # "END" /\ flow'.state # flow.state => PipelineStep]_vars

\* C20, amended: a state of the registration flow changes only to its
\* immediate successor, or to no conversation on /cancel; no input skips a
\* state or leads a step backwards.
C20_LinearPipelineOrCancel ==
    [][flow.state # "END" /\ flow'.state # flow.state =>
          \/ PipelineStep
          \/ last'.op = "cancel" /\ flow'.state = "END"]_vars

\* A conversation cancelled with input in the buffer, by a user who has a
\* profile.
C20_Witness ==
    /\ last.op = "cancel"
    /\ flow.state = "END"
    /\ "gender" \in flow.registration.keys
    /\ HasProfile(profiles, ChatUser)

(***************************************************************************)
(* C21: every row of users written by the registration commit or by the    *)
(* edit conversation has an age, an integer from 18 to 100, and a bio of   *)
(* at most 500 characters.                                                 *)
(***************************************************************************)
ValidProfile(r) ==
    /\ Len(r.age) = 1
    /\ MIN_AGE <= r.age[1] /\ r.age[1] <= MAX_AGE
    /\ r.bio <= MAX_BIO_LENGTH

C21_AgeAndBioValidated == \A r \in Rows(profiles) : ValidProfile(r)

\* A profile with the largest age and the longest bio allowed has been
\* stored by a handler of a conversation.
C21_Witness ==
    /\ last.path \in {"commit", "update_user"}
    /\ \E r \in Rows(profiles) : r.age = <<MAX_AGE>> /\ r.bio = MAX_BIO_LENGTH

(***************************************************************************)
(* C22: in handle_registration_interests the list of interests has at most *)
(* 5 tags and no tag twice; a tag pressed is removed when it is in the     *)
(* list and added when it is not, a sixth tag is refused and the list      *)
(* stays as it was, and tags_done leads to REG_GOAL only with a list that  *)
(* is not empty.                                                           *)
(***************************************************************************)
TagsOf(interests) == {interests[i] : i \in DOMAIN interests}

NoDuplicates(interests) == Cardinality(TagsOf(interests)) = Len(interests)

C22_InterestsToggle ==
    [][last'.op = "handle_registration_interests" =>
          LET old == flow.registration.interests
              new == flow'.registration.interests
              tag == last'.b
          IN  /\ Len(new) <= MaxInterests
              /\ NoDuplicates(new)
              /\ last'.path = "tag" =>
                    IF tag \in TagsOf(old)
                    THEN TagsOf(new) = TagsOf(old) \ {tag}
                    ELSE IF Len(old) < MaxInterests
                    THEN TagsOf(new) = TagsOf(old) \cup {tag}
                    ELSE new = old
              /\ last'.path # "tag" => new = old
              /\ flow'.state = "REG_GOAL" => last'.path = "tags_done" /\ new # << >>
              /\ flow'.state \in {"REG_INTERESTS", "REG_GOAL"}]_vars

\* A sixth tag has been pressed with five tags in the list.
C22_Witness ==
    /\ last.op = "handle_registration_interests"
    /\ last.path = "tag"
    /\ Len(flow.registration.interests) = MaxInterests
    /\ last.b \notin TagsOf(flow.registration.interests)

(***************************************************************************)
(* C23: while the user of the chat has no profile, no handler of the       *)
(* registration before the last one writes to the users table, and the     *)
(* last one calls create_user once: one row, of that user, is inserted.    *)
(***************************************************************************)
C23_StoreWrittenAtCommitOnly ==
    [][~HasProfile(profiles, ChatUser) =>
          IF last'.path = "commit"
          THEN /\ ProfileCount(profiles', ChatUser) = 1
               /\ BagCardinality(profiles') = BagCardinality(profiles) + 1
          ELSE profiles' = profiles]_vars

\* rrr.py has committed a registration: create_user returned the new user.
C23_Witness ==
    /\ variant = "rrr"
    /\ last.op = "handle_registration_goal"
    /\ last.path = "commit"
    /\ last.ret = "user"
    /\ ProfileCount(profiles, ChatUser) = 1

(***************************************************************************)
(* C24: when create_user returned no user, the buffer holds after the last *)
(* handler every field collected, the last one included; the buffer is     *)
(* dropped only when create_user returned the new user.                    *)
(***************************************************************************)
LastKey == IF variant = "rrr" THEN "goal" ELSE "bio"

C24_BufferKeptOnFailure ==
    [][last'.path = "commit" =>
          LET old == flow.registration
              new == flow'.registration
          IN  /\ last'.ret # "user" =>
                    /\ new.present
                    /\ new.keys = old.keys \cup {LastKey}
                    /\ new.name = old.name
                    /\ new.age = old.age
                    /\ new.interests = old.interests
                    /\ variant = "rrr" => new.bio = old.bio
              /\ new = NoRegistration =>
                    /\ last'.ret = "user"
                    /\ ~HasProfile(profiles, ChatUser)
                    /\ HasProfile(profiles', ChatUser)]_vars

\* A user who has a profile has gone through the registration of rrr.py
\* again: create_user returned None and the buffer is still there.
C24_Witness ==
    /\ variant = "rrr"
    /\ last.path = "commit"
    /\ last.ret = "None"
    /\ flow.state = "END"
    /\ {"name", "age", "gender", "city", "bio", "interests", "goal"}
          \subseteq flow.registration.keys

(***************************************************************************)
(* C25: in every state of the registration conversation and of the edit    *)
(* conversation the command /cancel ends the conversation: the state       *)
(* becomes END, the pipeline does not advance and the command is not       *)
(* stored as the value of a field.                                         *)
(***************************************************************************)
\* The step just taken handled the command /cancel.
CancelSent ==
    \/ last'.op = "cancel"
    \/ /\ last'.op \in {"handle_registration_city", "handle_edit_city_input"}
       /\ last'.message = "/cancel"

C25_CancelFromAnyState ==
    [][CancelSent =>
          IF flow.state # "END"
          THEN /\ flow'.state = "END"
               /\ flow'.registration.keys \subseteq flow.registration.keys
          ELSE /\ edit' = "END"
               /\ last'.path # "update_user"]_vars

(***************************************************************************)
(* C26: after /cancel has ended a registration conversation the buffer of  *)
(* the user is empty: context.user_data holds no field typed before.       *)
(***************************************************************************)
C26_CancelClearsBuffer ==
    [][(last'.op = "cancel" /\ flow.state # "END") =>
          /\ flow'.state = "END"
          /\ flow'.registration = NoRegistration]_vars

(***************************************************************************)
(* C27: in the edit conversation of ridon.py a handler of a field that has *)
(* applied its input with update_user returns to the menu of fields,       *)
(* EDIT_PROFILE; it does not stay in its own state.                        *)
(***************************************************************************)
EditInputHandlers ==
    {"handle_edit_name_age_input", "handle_edit_bio_input",
     "handle_edit_photo_input", "handle_edit_city_input"}

C27_EditReturnsToMenu ==
    [][(last'.op \in EditInputHandlers /\ last'.path = "update_user") =>
          edit' = "EDIT_PROFILE"]_vars

(***************************************************************************)
(* C28: an input that the state does not accept (a name and age that do    *)
(* not parse, an age outside 18..100, a bio of more than 500 characters, a *)
(* gender that is not one of the choices) leaves the state of the          *)
(* conversation, the buffer and the users table as they were.              *)
(***************************************************************************)
BadNameAge(text) ==
    \/ text.parts < 2
    \/ ~text.isint
    \/ text.age < MIN_AGE
    \/ text.age > MAX_AGE

\* The step just taken gave a handler an input it does not accept.
RejectedInput ==
    \/ /\ last'.op \in {"handle_registration_name_age", "handle_edit_name_age_input"}
       /\ BadNameAge(last'.input)
    \/ /\ last'.op = "handle_registration_gender"
       /\ ~last'.input
    \/ /\ last'.op \in {"handle_registration_bio", "handle_edit_bio_input"}
       /\ last'.path # "commit"
       /\ last'.input > MAX_BIO_LENGTH

ActiveMatchBetween(M, v, u) ==
    \E m \in Rows(M) :
        /\ m.is_active
        /\ \/ (m.user1_id = v /\ m.user2_id = u)
           \/ (m.user1_id = u /\ m.user2_id = v)

C29_MatchExcludesIffActive ==
    (last.op = "get_next_profile" /\ Registered(Store, last.a)) =>
        \A u \in DOMAIN users \ {last.a} :
            rrr_match_excludes(matches, last.a, u)
                <=> ActiveMatchBetween(matches, last.a, u)

(***************************************************************************)
(* C30: the quota check of create_like is not stricter for a premium       *)
(* profile than for a free one: a premium profile is refused only with a   *)
(* counter at which a free profile is refused too.                         *)
(***************************************************************************)
LikesCounter(user) ==
    IF variant = "rrr" THEN user.likes_today ELSE user.likes_given_today

C30_PremiumNotStricter ==
    [][(/\ last'.op = "create_like"
        /\ last'.path = "quota"
        /\ users[last'.a].is_premium)
          => LikesCounter(users'[last'.a]) >= LIKES_PER_DAY_FREE]_vars

(***************************************************************************)
(* C31.  What the handler tells the user after a like.                     *)
(***************************************************************************)
\* C31: a call of create_like that the quota denied, or that found no
\* profile, is never answered with "like sent": the handler can tell a denied
\* like from a sent one.
C31_DeniedLikeNotReportedSent ==
    (last.op = "create_like" /\ last.path \in {"quota", "notfound"})
        => last.reply # "sent"

(***************************************************************************)
(* C32.  A banned profile and the matching functions.                      *)
(***************************************************************************)
\* C32: while the is_banned flag of a profile is set, a create_like it sends
\* writes no row of likes, marks no like mutual and creates no match, and
\* get_next_profile returns no profile to it.
C32_BannedCannotMatch ==
    [][/\ (/\ last'.op = "create_like"
           /\ Registered(Store, last'.a)
           /\ users[last'.a].is_banned)
          => (likes' = likes /\ matches' = matches)
       /\ (/\ last'.op = "get_next_profile"
           /\ Registered(Store, last'.a)
           /\ users[last'.a].is_banned)
          => last'.ret_user = 0]_vars

(***************************************************************************)
(* C33.  The start event of an identity that has a profile.                *)
(***************************************************************************)
\* C33: while the chat's user has a row in users, the registration
\* conversation is idle: the start event does not take a registered identity
\* into the pipeline, so none of its inputs is taken as a registration field.
C33_RegisteredNeverEnters ==
    HasProfile(profiles, ChatUser) => flow.state = "END"

(***************************************************************************)
(* C34.  A photo sent while the edit conversation awaits one.              *)
(***************************************************************************)
\* The handlers a photo message can be given to.
PhotoHandlers == {"handle_registration_photo", "handle_edit_photo_input"}

\* C34: a photo sent while the edit conversation is in EDIT_PHOTO is given
\* to the edit conversation: update_user is called, the edit conversation
\* leaves EDIT_PHOTO, and the state and the buffer of the registration
\* conversation are unchanged.
C34_EditPhotoNotStolen ==
    [][(edit = "EDIT_PHOTO" /\ last'.op \in PhotoHandlers)
          => /\ last'.op = "handle_edit_photo_input"
             /\ last'.path = "update_user"
             /\ edit' # "EDIT_PHOTO"
             /\ flow' = flow]_vars

(***************************************************************************)
(* C35.  The counter of likes received and the rows of likes.              *)
(***************************************************************************)
\* SELECT COUNT(*) FROM likes WHERE to_user_id = ?  (get_user_stats,
\* likes_received)
LikesReceived(L, id) ==
    BagCardinality(KeepRows(L, {r \in Rows(L) : r.to_user_id = id}))

\* C35: in ridon.py, where no profile is deleted, likes_received_total of
\* every profile is the number of rows of likes that point to it, after any
\* sequence of create_like calls, duplicate likes included.
C35_ReceivedTotalIsEdgeCount ==
    variant = "ridon"
        => \A id \in DOMAIN users :
              users[id].likes_received_total = LikesReceived(likes, id)

(***************************************************************************)
(* C36.  ridon.py: the mutual marker of the two likes of a pair.           *)
(***************************************************************************)
\* C36: in ridon.py, between calls, a row of likes from A to B has
\* is_mutual = 1 exactly when there is a row from B to A, and then that row
\* has is_mutual = 1 as well.
C36_MutualMarkerConsistent ==
    variant = "ridon"
        => \A r \in Rows(likes) :
              /\ r.is_mutual <=> HasLike(likes, r.to_user_id, r.from_user_id)
              /\ r.is_mutual =>
                    \A q \in Rows(likes) :
                        (q.from_user_id = r.to_user_id /\ q.to_user_id = r.from_user_id)
                            => q.is_mutual

\* Both callers have liked each other and both rows are marked.
C36_Witness ==
    /\ variant = "ridon"
    /\ last.op = "create_like"
    /\ last.path = "mutual"
    /\ \E r, q \in Rows(likes) :
          /\ r.from_user_id = 1 /\ r.to_user_id = 2 /\ r.is_mutual
          /\ q.from_user_id = 2 /\ q.to_user_id = 1 /\ q.is_mutual

(***************************************************************************)
(* C37.  rrr.py: the two likes of a pair are never both in the table.      *)
(***************************************************************************)
\* C37: in rrr.py, when no statement fails, no state between calls holds
\* both a like from A to B and a like from B to A for distinct A and B: the
\* create_like that completes the pair inserts the match and deletes both
\* likes in the same transaction.
C37_NoReciprocalLikesLeft ==
    variant = "rrr"
        => \A r \in Rows(likes) :
              r.from_user_id # r.to_user_id
                  => ~HasLike(likes, r.to_user_id, r.from_user_id)

\* The second like of the pair has just been sent: the match is there and
\* neither like is.
C37_Witness ==
    /\ variant = "rrr"
    /\ last.op = "create_like"
    /\ last.path = "mutual"
    /\ MatchCount(matches, last.a, last.b) >= 1
    /\ ~HasLike(likes, last.a, last.b)
    /\ ~HasLike(likes, last.b, last.a)

(***************************************************************************)
(* C38.  A like a profile sends to itself.                                 *)
(***************************************************************************)
\* C38: no profile is matched with itself: create_like(A, A) never returns
\* True, no row of matches has the same profile in both columns, and no like
\* from a profile to itself is marked mutual.
C38_NoSelfMatch ==
    /\ (last.op = "create_like" /\ last.a = last.b) => last.ret # "True"
    /\ \A m \in Rows(matches) : m.user1_id # m.user2_id
    /\ variant = "ridon"
          => \A r \in Rows(likes) : r.from_user_id = r.to_user_id => ~r.is_mutual

(***************************************************************************)
(* C39.  Viewing and skipping.                                             *)
(***************************************************************************)
\* C39: a skip of the profile just shown writes no row of likes or matches
\* and does not raise the viewer's daily counter (ridon.py appends a profile
\* view), and the skipped profile is still eligible for the viewer at the
\* next call.
C39_SkipChangesNoEligibility ==
    [][\A v \in Callers :
          (/\ last'.op = "skip" /\ last'.a = v
           /\ last.op \in {"get_next_profile", "skip"} /\ last.a = v
           /\ last.ret_user # 0)
          => /\ likes' = likes
             /\ matches' = matches
             /\ LikesToday(users'[v]) <= LikesToday(users[v])
             /\ views \subseteq views'
             /\ last.ret_user \in EligibleFor(v)']_vars

\* A profile was shown, skipped, and is shown again.
C39_Witness ==
    /\ last.op = "skip"
    /\ last.skipped # 0
    /\ last.ret_user = last.skipped
    /\ last.skipped \in EligibleFor(last.a)

(***************************************************************************)
(* C40.  rrr.py: the tags of a committed profile and the list TAGS.        *)
(***************************************************************************)
\* C40: in rrr.py every tag in the interests of a row of users is a member
\* of TAGS: the interests step offers and accepts no tag outside TAGS.
C40_InterestsWithinTAGS ==
    variant = "rrr"
        => \A r \in Rows(profiles) : TagsOf(r.interests) \subseteq TAGS

====
